---------------------------- MODULE Spec2Model ----------------------------
(*****************************************************************************)
(* Image-to-React: the LLM-output normalizers and the generation retry loop  *)
(* of src/src/services/azureOpenAIService.ts, the preview adapters of        *)
(* src/src/components/LivePreview.tsx, the image list and the generation     *)
(* loops of src/src/App.tsx, and the route POST /generate-code of            *)
(* src/backend/routes/gemini.js with its front end in src/frontend/src, the  *)
(* version history of src/backend/services/projectManager.js, the /publish   *)
(* route with backups of src/unnamed/part_001, and the image list of         *)
(* src/frontend/src/components/ImageUpload.jsx.                              *)
(*                                                                           *)
(* A text is a sequence of lexemes.  Each lexeme stands for one fixed piece  *)
(* of text (listed below); a text is the concatenation of its lexemes with   *)
(* nothing in between, so whitespace is always an explicit NL, CR or SP      *)
(* lexeme.  Every regular expression and every String.includes of the source *)
(* is translated to what it does on such concatenations.                     *)
(*                                                                           *)
(* Lexemes of the raw texts:                                                 *)
(*   BT                    one backtick                                      *)
(*   NL                    one line end (\n)                                 *)
(*   CR                    one carriage return (\r)                          *)
(*   SP                    one space                                         *)
(*   JSX                   jsx                                               *)
(*   JS                    js                                                *)
(*   JAVASCRIPT            javascript                                        *)
(*   TSX                   tsx                                               *)
(*   DART                  dart                                              *)
(*   PAD                   padLen letters a in a row (the length is the      *)
(*                         variable padLen)                                  *)
(*   PROSE                 Sure, here you go:                                *)
(*   IMPORT_REACT          import React from 'react';                        *)
(*   IMPORT_REACT_US       import React, { useState } from 'react';          *)
(*   HOOK_USE              const [n, setN] = useState(0);                    *)
(*   DEF_CONST_GC          const GeneratedComponent = () => { return         *)
(*                         <div>form</div>; };                               *)
(*   DEF_TYPED_GC          const GeneratedComponent: React.FC = () => {      *)
(*                         return <div>form</div>; };                        *)
(*   DEF_FUNC_GC           function GeneratedComponent() { return            *)
(*                         <div>form</div>; }                                *)
(*   EXP_GC                export default GeneratedComponent;                *)
(*   EXP_FOO               export default Foo;                               *)
(*   EXP_FUNC_GC           export default function GeneratedComponent() {    *)
(*                         return <div>form</div>; }                         *)
(*   EXP_ANON              export default () => <div>form</div>;             *)
(*   EXP_BARE              export default                                    *)
(*   GOOD_MUI_DEF          const GeneratedComponent = () => { const small =  *)
(*                         useMediaQuery(theme.breakpoints.down('sm'));      *)
(*                         return <Box role="main"                           *)
(*                         aria-label="form">form</Box>; };                  *)
(*   A11Y_MUI_DEF          const GeneratedComponent = () => { const wide =   *)
(*                         useMediaQuery('(min-width:600px)'); return <Box   *)
(*                         role="main" aria-label="form">form</Box>; };      *)
(*   DEF_CONST_APP         const App = () => { return <div>form</div>; };    *)
(*   DEF_TYPED_APP         const App: React.FC = () => { return              *)
(*                         <div>form</div>; };                               *)
(*   DEF_FUNC_APP          function App() { return <div>form</div>; }        *)
(*   EXP_APP               export default App;                               *)
(*   EXP_FUNC_APP          export default function App() { return            *)
(*                         <div>form</div>; }                                *)
(*   GOOD_RN_DEF           const App = () => { const w =                     *)
(*                         Dimensions.get('window').width; const c =         *)
(*                         Dimensions.get('window').width < 320 ? 1 :        *)
(*                         Dimensions.get('window').width < 768 ? 2 :        *)
(*                         Dimensions.get('window').width < 1280 ? 3 : 4;    *)
(*                         return <View accessible={true} accessibilityLabel *)
(*                         ="form"><Text>form</Text></View>; };              *)
(*   PICKER_USE            <Picker selectedValue={v} onValueChange={setV} /> *)
(*   IMPORT_MATERIAL       import 'package:flutter/material.dart';           *)
(*   VOID_MAIN             void main() { runApp(const MyApp()); }            *)
(*   MAIN_ARGS             void main(List<String> args) { runApp(const       *)
(*                         MyApp()); }                                       *)
(*   CLASS_WIDGET          class MyApp extends StatelessWidget { Widget      *)
(*                         build(BuildContext c) { return const              *)
(*                         Text("form"); } }                                 *)
(*   CLASS_HOME            class HomeScreen extends StatefulWidget {         *)
(*                         State<HomeScreen> createState() => HomeState(); } *)
(*   PROSE_MAIN            Call this from main():                            *)
(*   GOOD_FL_BODY          void main() { runApp(const MyApp()); } class      *)
(*                         MyApp extends StatelessWidget { Widget            *)
(*                         build(BuildContext context) { final screenWidth = *)
(*                         MediaQuery.of(context).size.width; final cols =   *)
(*                         screenWidth < 320 ? 1 : screenWidth < 768 ? 2 :   *)
(*                         screenWidth < 1280 ? 3 : 4; return                *)
(*                         Semantics(label: 'form', child: Text('form')); }  *)
(*                         }                                                 *)
(*   SURROGATE             final icon = '<the lone high surrogate U+D83D>';  *)
(*                                                                           *)
(* Lexemes that only the program produces:                                   *)
(*   FB_FL_BODY            void main() { runApp(const MyApp()); } class      *)
(*                         MyApp ... of the flutter fallback                 *)
(*   FB_MUI_DEF            const GeneratedComponent: React.FC = () => { ...  *)
(*                         }; of the react-mui fallback                      *)
(*   FB_MUI_DEF_APP        FB_MUI_DEF with every GeneratedComponent replaced *)
(*                         by App                                            *)
(*   FB_RN_DEF             const { width } = Dimensions.get('window'); const *)
(*                         App: React.FC = () => { ... }; const styles =     *)
(*                         ...; of the react-native fallback                 *)
(*   GEN_MAIN_HOME         void main() {\n  runApp(const HomeScreen());\n}   *)
(*   GEN_MAIN_MYAPP        void main() {\n  runApp(const MyApp());\n}        *)
(*   IMPORT_EXPO_ICONS     import { Ionicons } from '@expo/vector-icons';    *)
(*   IMPORT_ICONS          the import { Search, ... } from                   *)
(*                         '@mui/icons-material'; statement of the react-mui *)
(*                         fallback                                          *)
(*   IMPORT_MUI            the import { Box, ... } from '@mui/material';     *)
(*                         statement of the react-mui fallback (61 names on  *)
(*                         63 lines)                                         *)
(*   IMPORT_MUI_SORTED     import { <the same 61 names, sorted, on one line> *)
(*                         } from '@mui/material';                           *)
(*   IMPORT_PICKER         import { Picker } from                            *)
(*                         '@react-native-picker/picker';                    *)
(*   IMPORT_REACT_CB_EF_US import React, { useCallback, useEffect, useState  *)
(*                         } from 'react';                                   *)
(*   IMPORT_REACT_CB_US    import React, { useCallback, useState } from      *)
(*                         'react';                                          *)
(*   IMPORT_REACT_EF_US    import React, { useEffect, useState } from        *)
(*                         'react';                                          *)
(*   IMPORT_REACT_US_CB    import React, { useState, useCallback } from      *)
(*                         'react';                                          *)
(*   IMPORT_REACT_US_EF    import React, { useState, useEffect } from        *)
(*                         'react';                                          *)
(*   IMPORT_RN             import { View, Text, FlatList, TouchableOpacity } *)
(*                         from 'react-native';                              *)
(*   IMPORT_RN_FB          import { SafeAreaView, View, Text, StyleSheet,    *)
(*                         TouchableOpacity, FlatList, Dimensions } from     *)
(*                         'react-native';                                   *)
(*   IMPORT_RN_FB_SORTED   import { Dimensions, FlatList, SafeAreaView,      *)
(*                         StyleSheet, Text, TouchableOpacity, View } from   *)
(*                         'react-native';                                   *)
(*   IMPORT_RN_SORTED      import { FlatList, Text, TouchableOpacity, View } *)
(*                         from 'react-native';                              *)
(*   NO_CODE_APP           function App() { return <div>No code              *)
(*                         provided.</div>; }                                *)
(*   NO_CODE_FLUTTER       the "No code provided" Flutter app of             *)
(*                         prepareCodeForPreview                             *)
(*   PAREN_CLOSE           \n)                                               *)
(*   PAREN_OPEN            (\n                                               *)
(*   PREVIEW_ERROR_CLOSE   }</pre>\n    </div>\n  );\n}                      *)
(*   PREVIEW_ERROR_OPEN    function App() {\n  return (\n    <div ...> ...   *)
(*                         <pre>{   (the "Preview Error" component up to the *)
(*                         quoted raw code)                                  *)
(*   RAW_JSON              JSON.stringify(rawCode), the quoted raw code      *)
(*   RN_WRAP_CLOSE         \n  );\n}                                         *)
(*   RN_WRAP_OPEN          function App() {\n  return (\n                    *)
(*   SIMPLE_FLUTTER_APP    the simpleFlutterApp text of createDartPadUrl     *)
(*   WRAP_CLOSE            ;\n}                                              *)
(*   WRAP_OPEN             function App() {\n  return and one space          *)
(*****************************************************************************)
EXTENDS Integers, Sequences, FiniteSets, TLC

VARIABLES
    fmt,          \* codeFormat: "react-mui" | "react-native" | "flutter"
    raw,          \* the raw model text handed to the normalizer
    out,          \* the normalizer's output for raw
    out2,         \* the normalizer's output for out
    npc,          \* "raw" | "once" | "twice"
    gpc,          \* generateReactCode: "idle" | "calling" | "returned" | "raised"
    attempts,     \* generateReactCode: attempts
    llmCalls,     \* number of chat.completions.create calls made so far
    code,         \* generateReactCode: code
    result,       \* the text generateReactCode returned
    prompt,       \* generateReactCode: the feedback appended to the prompt
    ppc,          \* the preview: "idle" | "awaiting" | "done" (initializePreview
                  \* ended) | "loaded" | "failed" (the iframe)
    isLoading,    \* LivePreview state
    previewUrl,   \* LivePreview state
    error,        \* LivePreview state
    files,        \* the files posted to the CodeSandbox define API
    response,     \* how the define request ended: "none" | "ok" | ...
    dartSource,   \* the argument of createDartPadUrl
    padLen,       \* number of characters a PAD lexeme stands for
    dartUrl,      \* what createDartPadUrl returned
    dpc,          \* "source" | "done"
    images,       \* App state: sequence of [id, description, code, isGenerating]
    nextId,       \* the id the next uploaded image gets (ids are never reused)
    selectedImageId, \* App state; 0 stands for the empty string
    userPrompt,   \* App state (src/src/App.tsx and frontend/src/App.jsx)
    isPreviewOpen,   \* App state
    notifications,   \* App state: the types of the notifications, oldest first
    globalProgress,  \* App state, its integer part
    isGeneratingAll, \* App state
    inflight,     \* the pending calls of generateUIDescription and
                  \* generateReactCode made by the App
    uploads,      \* the running loops of handleImagesUploaded: for each, the
                  \* ids it has still to describe, the awaited one first
    allRun,       \* the running loop of generateAllCodes: validImages and i
    uiDescription,   \* frontend/src/App.jsx state
    isGenerating,    \* frontend/src/App.jsx state
    generatedCode,   \* frontend/src/App.jsx state
    editorError,     \* frontend CodeEditor state: error
    posted,       \* bodies of POST /generate-code requests not yet handled
    routeCalls,   \* requests whose handler awaits geminiService.generateReactCode
    replies,      \* the responses sent: [body, status]
    projectExists,   \* ProjectManager: active-project is on disk
    versionFiles, \* ProjectManager: versions/vN.jsx, N |-> content
    componentFile,   \* ProjectManager: src/components/GeneratedComponent.jsx
    publishes,    \* the running executions of publishProject
    published,    \* POST /api/publish: the responses sent, in order
    appJs,        \* /publish: frontend/src/App.js, NoFile when absent
    backupDirs,   \* /publish: the folders vN, N |-> content of vN/App.jsx
    backupRuns,   \* /publish: the running executions of the route
    reported,     \* /publish: the responses sent, in order: [status, version]
    uploadedImages,  \* ImageUpload state: sequence of [id, file]
    parentImages, \* frontend/src/App.jsx state images: the files
    uploadError,  \* ImageUpload state error
    now,          \* ImageUpload: the last value Date.now() returned
    nextFile,     \* ImageUpload: the number the next chosen file gets
    inits,        \* LivePreview: the calls of initializePreview, in the order
                  \* they started: [code, format, status]
    loadTimers    \* LivePreview: pending timers of handleIframeLoad

normVars == <<raw, out, out2, npc>>
genVars == <<gpc, attempts, llmCalls, code, result, prompt>>
previewVars == <<ppc, isLoading, previewUrl, error, files, response>>
dartVars == <<dartSource, padLen, dartUrl, dpc>>
appVars == <<images, nextId, selectedImageId, isPreviewOpen, notifications,
             globalProgress, isGeneratingAll, inflight, uploads, allRun>>
backendVars == <<uiDescription, isGenerating, generatedCode, editorError,
                 posted, routeCalls, replies>>
publishVars == <<projectExists, versionFiles, componentFile, publishes,
                 published>>
backupVars == <<appJs, backupDirs, backupRuns, reported>>
uploadVars == <<uploadedImages, parentImages, uploadError, now, nextFile>>
overlapVars == <<inits, loadTimers>>
moreVars == <<publishVars, backupVars, uploadVars, overlapVars>>
restVars == <<userPrompt, appVars, backendVars, moreVars>>
vars == <<fmt, normVars, genVars, previewVars, dartVars, restVars>>

Formats == {"react-mui", "react-native", "flutter"}

\* A codeFormat string that is none of the three.
OtherFormats == {"vue"}

\* Longest raw text, in lexemes, handed to the normalizers.
MaxLen == 3

\* Longest raw text, in lexemes, of the fence-stripping runs.
MaxFenceLen == 5

---------------------------------------------------------------------------
\* Facts about single lexemes, each read off the lexeme's text.

\* Lexemes that are whitespace (\s) from their first to their last character.
Whitespace == {"CR", "NL", "SP"}

\* Lexemes that contain the letter i or I.
HasI ==
    {"A11Y_MUI_DEF", "CLASS_HOME", "CLASS_WIDGET", "DEF_CONST_APP",
     "DEF_CONST_GC", "DEF_FUNC_APP", "DEF_FUNC_GC", "DEF_TYPED_APP",
     "DEF_TYPED_GC", "EXP_ANON", "EXP_FUNC_APP", "EXP_FUNC_GC", "FB_FL_BODY",
     "FB_MUI_DEF", "FB_MUI_DEF_APP", "FB_RN_DEF", "GEN_MAIN_HOME",
     "GEN_MAIN_MYAPP", "GOOD_FL_BODY", "GOOD_MUI_DEF", "GOOD_RN_DEF",
     "IMPORT_EXPO_ICONS", "IMPORT_ICONS", "IMPORT_MATERIAL", "IMPORT_MUI",
     "IMPORT_MUI_SORTED", "IMPORT_PICKER", "IMPORT_REACT",
     "IMPORT_REACT_CB_EF_US", "IMPORT_REACT_CB_US", "IMPORT_REACT_EF_US",
     "IMPORT_REACT_US", "IMPORT_REACT_US_CB", "IMPORT_REACT_US_EF",
     "IMPORT_RN", "IMPORT_RN_FB", "IMPORT_RN_FB_SORTED", "IMPORT_RN_SORTED",
     "JAVASCRIPT", "MAIN_ARGS", "NO_CODE_APP", "NO_CODE_FLUTTER",
     "PICKER_USE", "PREVIEW_ERROR_CLOSE", "PREVIEW_ERROR_OPEN", "PROSE_MAIN",
     "RN_WRAP_OPEN", "SIMPLE_FLUTTER_APP", "SURROGATE", "VOID_MAIN",
     "WRAP_OPEN"}

\* Lexemes whose first letter i or I starts the word import.
StartsImport ==
    {"IMPORT_EXPO_ICONS", "IMPORT_ICONS", "IMPORT_MATERIAL", "IMPORT_MUI",
     "IMPORT_MUI_SORTED", "IMPORT_PICKER", "IMPORT_REACT",
     "IMPORT_REACT_CB_EF_US", "IMPORT_REACT_CB_US", "IMPORT_REACT_EF_US",
     "IMPORT_REACT_US", "IMPORT_REACT_US_CB", "IMPORT_REACT_US_EF",
     "IMPORT_RN", "IMPORT_RN_FB", "IMPORT_RN_FB_SORTED", "IMPORT_RN_SORTED",
     "NO_CODE_FLUTTER", "SIMPLE_FLUTTER_APP"}

\* Lexemes whose first character is a word character (\w).
WordStart ==
    {"A11Y_MUI_DEF", "CLASS_HOME", "CLASS_WIDGET", "DART", "DEF_CONST_APP",
     "DEF_CONST_GC", "DEF_FUNC_APP", "DEF_FUNC_GC", "DEF_TYPED_APP",
     "DEF_TYPED_GC", "EXP_ANON", "EXP_APP", "EXP_BARE", "EXP_FOO",
     "EXP_FUNC_APP", "EXP_FUNC_GC", "EXP_GC", "FB_FL_BODY", "FB_MUI_DEF",
     "FB_MUI_DEF_APP", "FB_RN_DEF", "GEN_MAIN_HOME", "GEN_MAIN_MYAPP",
     "GOOD_FL_BODY", "GOOD_MUI_DEF", "GOOD_RN_DEF", "HOOK_USE",
     "IMPORT_EXPO_ICONS", "IMPORT_ICONS", "IMPORT_MATERIAL", "IMPORT_MUI",
     "IMPORT_MUI_SORTED", "IMPORT_PICKER", "IMPORT_REACT",
     "IMPORT_REACT_CB_EF_US", "IMPORT_REACT_CB_US", "IMPORT_REACT_EF_US",
     "IMPORT_REACT_US", "IMPORT_REACT_US_CB", "IMPORT_REACT_US_EF",
     "IMPORT_RN", "IMPORT_RN_FB", "IMPORT_RN_FB_SORTED", "IMPORT_RN_SORTED",
     "JAVASCRIPT", "JS", "JSX", "MAIN_ARGS", "NO_CODE_APP",
     "NO_CODE_FLUTTER", "PAD", "PREVIEW_ERROR_OPEN", "PROSE", "PROSE_MAIN",
     "RN_WRAP_OPEN", "SIMPLE_FLUTTER_APP", "SURROGATE", "TSX", "VOID_MAIN",
     "WRAP_OPEN"}

\* Lexemes in which /export\s+default\s+\w+/i matches.
ExportWord == {"EXP_APP", "EXP_FOO", "EXP_FUNC_APP", "EXP_FUNC_GC", "EXP_GC"}

\* Lexemes that contain the text "export default".
ExportDefault ==
    {"EXP_ANON", "EXP_APP", "EXP_BARE", "EXP_FOO", "EXP_FUNC_APP",
     "EXP_FUNC_GC", "EXP_GC"}

\* Lexemes that contain the text "import React".
ImportReact ==
    {"IMPORT_REACT", "IMPORT_REACT_CB_EF_US", "IMPORT_REACT_CB_US",
     "IMPORT_REACT_EF_US", "IMPORT_REACT_US", "IMPORT_REACT_US_CB",
     "IMPORT_REACT_US_EF"}

\* Lexemes that end with a match of /export\s+default\s+\w+;?/i.
ExportLine == {"EXP_APP", "EXP_FOO", "EXP_GC"}

\* Lexemes that contain "const GeneratedComponent".
ConstGC ==
    {"A11Y_MUI_DEF", "DEF_CONST_GC", "DEF_TYPED_GC", "FB_MUI_DEF",
     "GOOD_MUI_DEF"}

\* Lexemes that contain "export default GeneratedComponent".
ExportsGC == {"EXP_GC"}

\* Lexemes that contain "const App" or "function App".
DefinesApp ==
    {"DEF_CONST_APP", "DEF_FUNC_APP", "DEF_TYPED_APP", "EXP_FUNC_APP",
     "FB_MUI_DEF_APP", "FB_RN_DEF", "GOOD_RN_DEF", "NO_CODE_APP",
     "PREVIEW_ERROR_OPEN", "RN_WRAP_OPEN", "WRAP_OPEN"}

\* Lexemes that contain "main()".
MainCall ==
    {"FB_FL_BODY", "GEN_MAIN_HOME", "GEN_MAIN_MYAPP", "GOOD_FL_BODY",
     "NO_CODE_FLUTTER", "PROSE_MAIN", "SIMPLE_FLUTTER_APP", "VOID_MAIN"}

\* Lexemes that contain "import 'package:flutter/material.dart'".
ImportsMaterial ==
    {"IMPORT_MATERIAL", "NO_CODE_FLUTTER", "SIMPLE_FLUTTER_APP"}

\* Lexemes that contain "void main()".
VoidMain ==
    {"FB_FL_BODY", "GEN_MAIN_HOME", "GEN_MAIN_MYAPP", "GOOD_FL_BODY",
     "NO_CODE_FLUTTER", "SIMPLE_FLUTTER_APP", "VOID_MAIN"}

\* Lexemes that contain "runApp(".
RunApp ==
    {"FB_FL_BODY", "GEN_MAIN_HOME", "GEN_MAIN_MYAPP", "GOOD_FL_BODY",
     "MAIN_ARGS", "NO_CODE_FLUTTER", "SIMPLE_FLUTTER_APP", "VOID_MAIN"}

hooksUsed == <<"useState", "useEffect", "useCallback", "useMemo", "useContext">>

\* Lexemes that contain the name of hook h.
HookUse(h) ==
    CASE h = "useState" ->
        {"FB_MUI_DEF", "FB_MUI_DEF_APP", "FB_RN_DEF", "HOOK_USE",
         "IMPORT_REACT_CB_EF_US", "IMPORT_REACT_CB_US", "IMPORT_REACT_EF_US",
         "IMPORT_REACT_US", "IMPORT_REACT_US_CB", "IMPORT_REACT_US_EF"}
      [] h = "useEffect" ->
        {"IMPORT_REACT_CB_EF_US", "IMPORT_REACT_EF_US", "IMPORT_REACT_US_EF"}
      [] h = "useCallback" ->
        {"FB_MUI_DEF", "FB_MUI_DEF_APP", "IMPORT_REACT_CB_EF_US",
         "IMPORT_REACT_CB_US", "IMPORT_REACT_US_CB"}
      [] h = "useMemo" ->
        {}
      [] h = "useContext" ->
        {}

\* Lexemes that contain "{ h" or ", h" for hook h.
HookImport(h) ==
    CASE h = "useState" ->
        {"IMPORT_REACT_CB_EF_US", "IMPORT_REACT_CB_US", "IMPORT_REACT_EF_US",
         "IMPORT_REACT_US", "IMPORT_REACT_US_CB", "IMPORT_REACT_US_EF"}
      [] h = "useEffect" ->
        {"IMPORT_REACT_CB_EF_US", "IMPORT_REACT_EF_US", "IMPORT_REACT_US_EF"}
      [] h = "useCallback" ->
        {"IMPORT_REACT_CB_EF_US", "IMPORT_REACT_CB_US", "IMPORT_REACT_US_CB"}
      [] h = "useMemo" ->
        {}
      [] h = "useContext" ->
        {}

\* Lexemes that contain "return".
IncludesReturn ==
    {"A11Y_MUI_DEF", "CLASS_WIDGET", "DEF_CONST_APP", "DEF_CONST_GC",
     "DEF_FUNC_APP", "DEF_FUNC_GC", "DEF_TYPED_APP", "DEF_TYPED_GC",
     "EXP_FUNC_APP", "EXP_FUNC_GC", "FB_FL_BODY", "FB_MUI_DEF",
     "FB_MUI_DEF_APP", "FB_RN_DEF", "GOOD_FL_BODY", "GOOD_MUI_DEF",
     "GOOD_RN_DEF", "NO_CODE_APP", "NO_CODE_FLUTTER", "PREVIEW_ERROR_OPEN",
     "RN_WRAP_OPEN", "SIMPLE_FLUTTER_APP", "WRAP_OPEN"}

\* Lexemes that contain "aria-label".
IncludesAriaLabel ==
    {"A11Y_MUI_DEF", "FB_MUI_DEF", "FB_MUI_DEF_APP", "GOOD_MUI_DEF"}

\* Lexemes that contain "role".
IncludesRole ==
    {"A11Y_MUI_DEF", "FB_MUI_DEF", "FB_MUI_DEF_APP", "GOOD_MUI_DEF"}

\* Lexemes that contain "accessible={true}".
IncludesAccessibleTrue == {"FB_RN_DEF", "GOOD_RN_DEF"}

\* Lexemes that contain "accessibilityLabel".
IncludesAccessibilityLabel == {"FB_RN_DEF", "GOOD_RN_DEF"}

\* Lexemes that contain "GeneratedComponent".
NamesGC ==
    {"A11Y_MUI_DEF", "DEF_CONST_GC", "DEF_FUNC_GC", "DEF_TYPED_GC",
     "EXP_FUNC_GC", "EXP_GC", "FB_MUI_DEF", "GOOD_MUI_DEF"}

\* Lexemes in which /<[A-Za-z][^>]*>/ matches.
JsxTag ==
    {"A11Y_MUI_DEF", "CLASS_HOME", "DEF_CONST_APP", "DEF_CONST_GC",
     "DEF_FUNC_APP", "DEF_FUNC_GC", "DEF_TYPED_APP", "DEF_TYPED_GC",
     "EXP_ANON", "EXP_FUNC_APP", "EXP_FUNC_GC", "FB_FL_BODY", "FB_MUI_DEF",
     "FB_MUI_DEF_APP", "FB_RN_DEF", "GOOD_MUI_DEF", "GOOD_RN_DEF",
     "MAIN_ARGS", "NO_CODE_APP", "PICKER_USE", "PREVIEW_ERROR_OPEN"}

\* Lexemes that contain "useMediaQuery" or "breakpoints".
MediaQueryOrBreakpoints ==
    {"A11Y_MUI_DEF", "FB_MUI_DEF", "FB_MUI_DEF_APP", "GOOD_MUI_DEF",
     "IMPORT_MUI", "IMPORT_MUI_SORTED"}

\* Lexemes that contain "breakpoints.down('sm')".
SmBreakpoint == {"FB_MUI_DEF", "FB_MUI_DEF_APP", "GOOD_MUI_DEF"}

\* Lexemes that contain "App".
NamesApp ==
    {"CLASS_WIDGET", "DEF_CONST_APP", "DEF_FUNC_APP", "DEF_TYPED_APP",
     "EXP_APP", "EXP_FUNC_APP", "FB_FL_BODY", "FB_MUI_DEF", "FB_MUI_DEF_APP",
     "FB_RN_DEF", "GEN_MAIN_HOME", "GEN_MAIN_MYAPP", "GOOD_FL_BODY",
     "GOOD_RN_DEF", "IMPORT_MUI", "IMPORT_MUI_SORTED", "MAIN_ARGS",
     "NO_CODE_APP", "NO_CODE_FLUTTER", "PREVIEW_ERROR_OPEN", "RN_WRAP_OPEN",
     "SIMPLE_FLUTTER_APP", "VOID_MAIN", "WRAP_OPEN"}

\* Lexemes that contain "Dimensions".
UsesDimensions ==
    {"FB_RN_DEF", "GOOD_RN_DEF", "IMPORT_RN_FB", "IMPORT_RN_FB_SORTED"}

\* Lexemes that contain "Semantics".
HasSemantics == {"GOOD_FL_BODY"}

\* Lexemes that contain "MediaQuery".
HasMediaQuery ==
    {"A11Y_MUI_DEF", "FB_FL_BODY", "FB_MUI_DEF", "FB_MUI_DEF_APP",
     "GOOD_FL_BODY", "GOOD_MUI_DEF", "IMPORT_MUI", "IMPORT_MUI_SORTED"}

\* Lexemes that contain "Dimensions.get('window').width < " followed by
\* width.
DimensionsBelow(width) ==
    CASE width = 320 ->
        {"GOOD_RN_DEF"}
      [] width = 768 ->
        {"GOOD_RN_DEF"}
      [] width = 1280 ->
        {"GOOD_RN_DEF"}

\* Lexemes that contain "screenWidth < " followed by width.
ScreenWidthBelow(width) ==
    CASE width = 320 ->
        {"GOOD_FL_BODY"}
      [] width = 768 ->
        {"GOOD_FL_BODY"}
      [] width = 1280 ->
        {"GOOD_FL_BODY"}

\* Lexemes that contain "function App" or "const App =".
FunctionAppOrConstAppEq ==
    {"DEF_CONST_APP", "DEF_FUNC_APP", "EXP_FUNC_APP", "GOOD_RN_DEF",
     "NO_CODE_APP", "PREVIEW_ERROR_OPEN", "RN_WRAP_OPEN", "WRAP_OPEN"}

\* Lexemes that contain "function App(" or "const App =".
FunctionAppParenOrConstAppEq ==
    {"DEF_CONST_APP", "DEF_FUNC_APP", "EXP_FUNC_APP", "GOOD_RN_DEF",
     "NO_CODE_APP", "PREVIEW_ERROR_OPEN", "RN_WRAP_OPEN", "WRAP_OPEN"}

\* Lexemes that contain "export default App".
ExportsApp == {"EXP_APP"}

\* Lexemes that contain "<".
HasLt ==
    {"A11Y_MUI_DEF", "CLASS_HOME", "DEF_CONST_APP", "DEF_CONST_GC",
     "DEF_FUNC_APP", "DEF_FUNC_GC", "DEF_TYPED_APP", "DEF_TYPED_GC",
     "EXP_ANON", "EXP_FUNC_APP", "EXP_FUNC_GC", "FB_FL_BODY", "FB_MUI_DEF",
     "FB_MUI_DEF_APP", "FB_RN_DEF", "GOOD_FL_BODY", "GOOD_MUI_DEF",
     "GOOD_RN_DEF", "MAIN_ARGS", "NO_CODE_APP", "PICKER_USE",
     "PREVIEW_ERROR_CLOSE", "PREVIEW_ERROR_OPEN"}

\* Lexemes that contain ">".
HasGt ==
    {"A11Y_MUI_DEF", "CLASS_HOME", "DEF_CONST_APP", "DEF_CONST_GC",
     "DEF_FUNC_APP", "DEF_FUNC_GC", "DEF_TYPED_APP", "DEF_TYPED_GC",
     "EXP_ANON", "EXP_FUNC_APP", "EXP_FUNC_GC", "FB_FL_BODY", "FB_MUI_DEF",
     "FB_MUI_DEF_APP", "FB_RN_DEF", "GOOD_MUI_DEF", "GOOD_RN_DEF",
     "MAIN_ARGS", "NO_CODE_APP", "NO_CODE_FLUTTER", "PICKER_USE",
     "PREVIEW_ERROR_CLOSE", "PREVIEW_ERROR_OPEN"}

\* Lexemes in which /<[a-zA-Z0-9]+[\s>]/ matches.
JsxLike ==
    {"A11Y_MUI_DEF", "CLASS_HOME", "DEF_CONST_APP", "DEF_CONST_GC",
     "DEF_FUNC_APP", "DEF_FUNC_GC", "DEF_TYPED_APP", "DEF_TYPED_GC",
     "EXP_ANON", "EXP_FUNC_APP", "EXP_FUNC_GC", "FB_FL_BODY", "FB_MUI_DEF",
     "FB_MUI_DEF_APP", "FB_RN_DEF", "GOOD_MUI_DEF", "GOOD_RN_DEF",
     "MAIN_ARGS", "NO_CODE_APP", "PICKER_USE", "PREVIEW_ERROR_OPEN"}

\* Lexemes that contain a line end.
HasNewline ==
    {"FB_FL_BODY", "FB_MUI_DEF", "FB_MUI_DEF_APP", "FB_RN_DEF",
     "GEN_MAIN_HOME", "GEN_MAIN_MYAPP", "IMPORT_ICONS", "IMPORT_MUI", "NL",
     "NO_CODE_FLUTTER", "PAREN_CLOSE", "PAREN_OPEN", "PREVIEW_ERROR_CLOSE",
     "PREVIEW_ERROR_OPEN", "RN_WRAP_CLOSE", "RN_WRAP_OPEN",
     "SIMPLE_FLUTTER_APP", "WRAP_CLOSE", "WRAP_OPEN"}

\* Lexemes that start with "(".
StartsParen == {"PAREN_OPEN"}

\* Lexemes that are, from their first to their last character, a match of
\* /export\s+default\s+(?:GeneratedComponent|App|[^;]+);?/.
ExportStmtLine == {"EXP_ANON", "EXP_APP", "EXP_FOO", "EXP_GC"}

\* Lexemes that start with a match of
\* /export\s+(?:const|let|var|function|class)\s+\w+/.
ExportDeclLine == {}

\* Lexemes that contain "<Picker".
PickerUse == {"PICKER_USE"}

\* Lexemes that are, from their first to their last character, a match of
\* importRegex.
ImportStatement ==
    {"IMPORT_EXPO_ICONS", "IMPORT_ICONS", "IMPORT_MUI", "IMPORT_MUI_SORTED",
     "IMPORT_PICKER", "IMPORT_REACT", "IMPORT_REACT_CB_EF_US",
     "IMPORT_REACT_CB_US", "IMPORT_REACT_EF_US", "IMPORT_REACT_US",
     "IMPORT_REACT_US_CB", "IMPORT_REACT_US_EF", "IMPORT_RN", "IMPORT_RN_FB",
     "IMPORT_RN_FB_SORTED", "IMPORT_RN_SORTED"}

\* match[3] of importRegex on an import statement.
modulePath(t) ==
    CASE t \in {"IMPORT_EXPO_ICONS"} ->
        "@expo/vector-icons"
      [] t \in {"IMPORT_ICONS"} ->
        "@mui/icons-material"
      [] t \in {"IMPORT_MUI", "IMPORT_MUI_SORTED"} ->
        "@mui/material"
      [] t \in {"IMPORT_PICKER"} ->
        "@react-native-picker/picker"
      [] t \in {"IMPORT_REACT", "IMPORT_REACT_CB_EF_US", "IMPORT_REACT_CB_US",
             "IMPORT_REACT_EF_US", "IMPORT_REACT_US", "IMPORT_REACT_US_CB",
             "IMPORT_REACT_US_EF"} ->
        "react"
      [] t \in {"IMPORT_RN", "IMPORT_RN_FB", "IMPORT_RN_FB_SORTED",
             "IMPORT_RN_SORTED"} ->
        "react-native"

\* The trimmed, non-empty names of match[2] of importRegex on an import
\* statement.
namedImports(t) ==
    CASE t \in {"IMPORT_REACT"} ->
        {}
      [] t \in {"IMPORT_MUI", "IMPORT_MUI_SORTED"} ->
        {"Accordion", "AccordionDetails", "AccordionSummary", "Alert",
         "AppBar", "Avatar", "Badge", "Box", "Breadcrumbs", "Button", "Card",
         "Checkbox", "Chip", "CircularProgress", "Collapse", "Container",
         "CssBaseline", "Dialog", "DialogActions", "DialogContent",
         "DialogTitle", "Divider", "Drawer", "Fade", "FormControl",
         "FormControlLabel", "Grid", "Grow", "IconButton", "InputAdornment",
         "InputLabel", "Link", "List", "ListItem", "ListItemButton",
         "ListItemIcon", "ListItemText", "Menu", "MenuItem", "Paper",
         "Popover", "Select", "Slide", "Snackbar", "Stack", "Step",
         "StepLabel", "Stepper", "Switch", "Tab", "TablePagination",
         "TableSortLabel", "Tabs", "TextField", "ThemeProvider", "Toolbar",
         "Tooltip", "Typography", "createTheme", "useMediaQuery", "useTheme"}
      [] t \in {"IMPORT_ICONS"} ->
        {"Add", "Analytics", "ArrowBack", "ArrowForward", "Assignment",
         "Brightness4", "Brightness7", "Business", "Campaign", "Cancel",
         "Check", "ChevronLeft", "ChevronRight", "Close", "Dashboard",
         "Delete", "Description", "Download", "Edit", "Email", "Error",
         "ExpandLess", "ExpandMore", "FilterList", "Group", "Help", "Home",
         "Info", "LocationOn", "Menu as MenuIcon", "MoreVert",
         "Notifications", "NotificationsActive", "Person", "Phone", "Print",
         "Refresh", "Save", "Search", "Settings", "Share", "Upload",
         "Visibility", "Warning", "Work"}
      [] t \in {"IMPORT_RN_FB", "IMPORT_RN_FB_SORTED"} ->
        {"Dimensions", "FlatList", "SafeAreaView", "StyleSheet", "Text",
         "TouchableOpacity", "View"}
      [] t \in {"IMPORT_RN", "IMPORT_RN_SORTED"} ->
        {"FlatList", "Text", "TouchableOpacity", "View"}
      [] t \in {"IMPORT_EXPO_ICONS"} ->
        {"Ionicons"}
      [] t \in {"IMPORT_PICKER"} ->
        {"Picker"}
      [] t \in {"IMPORT_REACT_CB_EF_US"} ->
        {"useCallback", "useEffect", "useState"}
      [] t \in {"IMPORT_REACT_CB_US", "IMPORT_REACT_US_CB"} ->
        {"useCallback", "useState"}
      [] t \in {"IMPORT_REACT_EF_US", "IMPORT_REACT_US_EF"} ->
        {"useEffect", "useState"}
      [] t \in {"IMPORT_REACT_US"} ->
        {"useState"}

\* The React import built from the sorted named imports, without its line
\* end.
reactImportString(names) ==
    CASE names = {} ->
        "IMPORT_REACT"
      [] names = {"useCallback", "useEffect", "useState"} ->
        "IMPORT_REACT_CB_EF_US"
      [] names = {"useCallback", "useState"} ->
        "IMPORT_REACT_CB_US"
      [] names = {"useEffect", "useState"} ->
        "IMPORT_REACT_EF_US"
      [] names = {"useState"} ->
        "IMPORT_REACT_US"

\* The @mui/material import built from the sorted component names, without
\* its line end.
muiImportString(names) ==
    CASE names = {"Accordion", "AccordionDetails", "AccordionSummary", "Alert",
             "AppBar", "Avatar", "Badge", "Box", "Breadcrumbs", "Button",
             "Card", "Checkbox", "Chip", "CircularProgress", "Collapse",
             "Container", "CssBaseline", "Dialog", "DialogActions",
             "DialogContent", "DialogTitle", "Divider", "Drawer", "Fade",
             "FormControl", "FormControlLabel", "Grid", "Grow", "IconButton",
             "InputAdornment", "InputLabel", "Link", "List", "ListItem",
             "ListItemButton", "ListItemIcon", "ListItemText", "Menu",
             "MenuItem", "Paper", "Popover", "Select", "Slide", "Snackbar",
             "Stack", "Step", "StepLabel", "Stepper", "Switch", "Tab",
             "TablePagination", "TableSortLabel", "Tabs", "TextField",
             "ThemeProvider", "Toolbar", "Tooltip", "Typography",
             "createTheme", "useMediaQuery", "useTheme"} ->
        "IMPORT_MUI_SORTED"

\* The react-native import built from the sorted named imports, without its
\* line end.
rnImportString(names) ==
    CASE names = {"Dimensions", "FlatList", "SafeAreaView", "StyleSheet", "Text",
             "TouchableOpacity", "View"} ->
        "IMPORT_RN_FB_SORTED"
      [] names = {"FlatList", "Text", "TouchableOpacity", "View"} ->
        "IMPORT_RN_SORTED"

\* match[1] of /class\s+(\w+)\s+extends\s+(?:StatelessWidget|StatefulWidget)/
\* on a lexeme in which it matches.
WidgetClassName(t) ==
    CASE t \in {"CLASS_HOME"} ->
        "HomeScreen"
      [] t \in {"CLASS_WIDGET", "FB_FL_BODY", "GOOD_FL_BODY", "NO_CODE_FLUTTER",
             "SIMPLE_FLUTTER_APP"} ->
        "MyApp"

\* Lexemes in which that expression matches.
WidgetClass ==
    {"CLASS_HOME", "CLASS_WIDGET", "FB_FL_BODY", "GOOD_FL_BODY",
     "NO_CODE_FLUTTER", "SIMPLE_FLUTTER_APP"}

\* Lexemes that hold a lone surrogate: encodeURIComponent throws URIError on
\* a text that holds one.
Malformed == {"SURROGATE"}

\* encodeURIComponent(t).length for each lexeme but PAD and the malformed
\* ones: one for a character of A-Z a-z 0-9 - _ . ! ~ * ' ( ), three for
\* every other character of the lexemes.
EncLen(t) ==
    CASE t \in {"JS"} ->
        2
      [] t \in {"BT", "CR", "JSX", "NL", "SP", "TSX"} ->
        3
      [] t \in {"DART", "PAREN_CLOSE", "PAREN_OPEN"} ->
        4
      [] t \in {"RAW_JSON"} ->
        6
      [] t \in {"WRAP_CLOSE"} ->
        9
      [] t \in {"JAVASCRIPT"} ->
        10
      [] t \in {"EXP_BARE"} ->
        16
      [] t \in {"RN_WRAP_CLOSE"} ->
        19
      [] t \in {"EXP_APP", "EXP_FOO"} ->
        25
      [] t \in {"PROSE"} ->
        28
      [] t \in {"PROSE_MAIN"} ->
        30
      [] t \in {"IMPORT_REACT"} ->
        34
      [] t \in {"EXP_GC", "WRAP_OPEN"} ->
        40
      [] t \in {"IMPORT_MATERIAL"} ->
        47
      [] t \in {"HOOK_USE"} ->
        48
      [] t \in {"VOID_MAIN"} ->
        54
      [] t \in {"RN_WRAP_OPEN"} ->
        56
      [] t \in {"GEN_MAIN_MYAPP", "IMPORT_REACT_US"} ->
        60
      [] t \in {"EXP_ANON", "PREVIEW_ERROR_CLOSE"} ->
        61
      [] t \in {"GEN_MAIN_HOME"} ->
        65
      [] t \in {"IMPORT_EXPO_ICONS"} ->
        66
      [] t \in {"DEF_FUNC_APP"} ->
        68
      [] t \in {"IMPORT_PICKER", "PICKER_USE"} ->
        73
      [] t \in {"IMPORT_REACT_EF_US", "IMPORT_REACT_US_EF"} ->
        75
      [] t \in {"IMPORT_REACT_CB_US", "IMPORT_REACT_US_CB", "MAIN_ARGS"} ->
        77
      [] t \in {"DEF_FUNC_GC"} ->
        83
      [] t \in {"NO_CODE_APP"} ->
        85
      [] t \in {"DEF_CONST_APP"} ->
        86
      [] t \in {"EXP_FUNC_APP"} ->
        87
      [] t \in {"IMPORT_REACT_CB_EF_US"} ->
        92
      [] t \in {"IMPORT_RN", "IMPORT_RN_SORTED"} ->
        98
      [] t \in {"DEF_TYPED_APP"} ->
        100
      [] t \in {"DEF_CONST_GC"} ->
        101
      [] t \in {"EXP_FUNC_GC"} ->
        102
      [] t \in {"DEF_TYPED_GC"} ->
        115
      [] t \in {"CLASS_HOME"} ->
        123
      [] t \in {"CLASS_WIDGET"} ->
        139
      [] t \in {"IMPORT_RN_FB", "IMPORT_RN_FB_SORTED"} ->
        148
      [] t \in {"A11Y_MUI_DEF"} ->
        210
      [] t \in {"GOOD_MUI_DEF"} ->
        218
      [] t \in {"NO_CODE_FLUTTER"} ->
        351
      [] t \in {"GOOD_RN_DEF", "PREVIEW_ERROR_OPEN"} ->
        434
      [] t \in {"GOOD_FL_BODY"} ->
        457
      [] t \in {"IMPORT_ICONS"} ->
        738
      [] t \in {"IMPORT_MUI_SORTED"} ->
        927
      [] t \in {"IMPORT_MUI"} ->
        1011
      [] t \in {"SIMPLE_FLUTTER_APP"} ->
        2141
      [] t \in {"FB_RN_DEF"} ->
        3971
      [] t \in {"FB_FL_BODY"} ->
        4577
      [] t \in {"FB_MUI_DEF_APP"} ->
        16834
      [] t \in {"FB_MUI_DEF"} ->
        16849

Has(s, set) == \E i \in 1..Len(s) : s[i] \in set

---------------------------------------------------------------------------
\* Helpers on texts.

RECURSIVE SkipWs(_, _)
\* The first position at or after i that is not whitespace (\s*).
SkipWs(s, i) ==
    IF i <= Len(s) /\ s[i] \in Whitespace THEN SkipWs(s, i + 1) ELSE i

RECURSIVE TrimLeft(_)
TrimLeft(s) ==
    IF s # <<>> /\ Head(s) \in Whitespace THEN TrimLeft(Tail(s)) ELSE s

RECURSIVE TrimRight(_)
TrimRight(s) ==
    IF s # <<>> /\ s[Len(s)] \in Whitespace
    THEN TrimRight(SubSeq(s, 1, Len(s) - 1)) ELSE s

\* String.prototype.trim
Trim(s) == TrimRight(TrimLeft(s))

IsFenceAt(s, i) ==
    i + 2 <= Len(s) /\ s[i] = "BT" /\ s[i + 1] = "BT" /\ s[i + 2] = "BT"

RECURSIVE StripFrom(_, _, _, _)
\* replace(/```(?:<langs>)?\s*/g, '') from position i on; once: only the
\* first match is replaced.
StripFrom(s, i, langs, once) ==
    IF i > Len(s) THEN <<>>
    ELSE IF IsFenceAt(s, i)
         THEN LET j == IF i + 3 <= Len(s) /\ s[i + 3] \in langs
                       THEN i + 4 ELSE i + 3
                  k == SkipWs(s, j)
              IN  IF once THEN SubSeq(s, k, Len(s))
                  ELSE StripFrom(s, k, langs, once)
         ELSE <<s[i]>> \o StripFrom(s, i + 1, langs, once)

\* The fence stripping without the g flag.
StripFencesFirstOnly(s, langs) ==
    StripFrom(StripFrom(s, 1, langs, TRUE), 1, {}, TRUE)

\* .replace(/```(?:jsx?|...)?\s*/gmi, '').replace(/```\s*/gmi, '')
StripFences(s, langs) ==
    StripFrom(StripFrom(s, 1, langs, FALSE), 1, {}, FALSE)

\* Position of the first lexeme of s that is in set, 0 if there is none.
FirstIn(s, set) ==
    IF Has(s, set)
    THEN CHOOSE i \in 1..Len(s) :
            s[i] \in set /\ \A j \in 1..(i - 1) : s[j] \notin set
    ELSE 0

---------------------------------------------------------------------------
\* The react-mui normalizer (EnhancedAzureOpenAIService).

\* Language tags of the fence regexp of each normalizer that are lexemes.
MuiLangs == {"JSX"}
RnLangs == {"JSX"}
FlutterLangs == {"DART"}

createEnhancedFallbackReactComponent ==
    <<"IMPORT_REACT_US_CB", "NL", "IMPORT_MUI", "NL", "IMPORT_ICONS",
      "NL", "NL", "FB_MUI_DEF", "NL", "NL", "EXP_GC">>

createEnhancedFallbackReactNativeComponent ==
    <<"IMPORT_REACT_US", "NL", "IMPORT_RN_FB", "NL", "IMPORT_EXPO_ICONS",
      "NL", "NL", "FB_RN_DEF", "NL", "NL", "EXP_APP">>

createEnhancedFallbackFlutterApp ==
    <<"IMPORT_MATERIAL", "NL", "NL", "FB_FL_BODY">>

\* replace(/^[^i]*?(?=import)/i, ''): the text before the first letter i is
\* dropped when that i starts the word import.
StripProse(s) ==
    LET p == FirstIn(s, HasI)
    IN  IF p > 0 /\ s[p] \in StartsImport THEN SubSeq(s, p, Len(s)) ELSE s

\* /export\s+default\s+\w+/i matches the text at lexeme i.
ExportMatchAt(s, i) ==
    \/ s[i] \in ExportWord
    \/ /\ s[i] = "EXP_BARE"
       /\ i < Len(s) /\ s[i + 1] = "NL"
       /\ SkipWs(s, i + 1) <= Len(s)
       /\ s[SkipWs(s, i + 1)] \in WordStart

FirstExportMatch(s) ==
    IF \E i \in 1..Len(s) : ExportMatchAt(s, i)
    THEN CHOOSE i \in 1..Len(s) :
            ExportMatchAt(s, i) /\ \A j \in 1..(i - 1) : ~ExportMatchAt(s, j)
    ELSE 0

\* replace(/(?:export\s+default\s+\w+;?\s*)[\s\S]*$/gmi,
\*         'export default GeneratedComponent;')
CleanExports(s) ==
    LET m == FirstExportMatch(s)
    IN  IF m = 0 THEN s ELSE SubSeq(s, 1, m - 1) \o <<"EXP_GC">>

EnsureReactImport(s) ==
    IF Has(s, ImportReact) THEN s ELSE <<"IMPORT_REACT", "NL">> \o s

missingHooks(s) ==
    LET Missing(h) == Has(s, HookUse(h)) /\ ~Has(s, HookImport(h))
    IN  SelectSeq(hooksUsed, Missing)

\* t.replace('import React', `import React, { ${missing.join(', ')} }`)
WithHooks(t, missing) ==
    CASE t = "IMPORT_REACT" /\ missing = <<"useState">> -> "IMPORT_REACT_US"
      [] t = "IMPORT_REACT" /\ missing = <<"useState", "useEffect">> ->
            "IMPORT_REACT_US_EF"
      [] t = "IMPORT_REACT" /\ missing = <<"useState", "useCallback">> ->
            "IMPORT_REACT_US_CB"

\* "Add hooks if used but not imported": the replacement is made in the
\* first lexeme that contains "import React".
AddMissingHooks(s) ==
    LET p == FirstIn(s, ImportReact)
    IN  IF missingHooks(s) = <<>> \/ p = 0 THEN s
        ELSE [s EXCEPT ![p] = WithHooks(s[p], missingHooks(s))]

RECURSIVE RemoveTrailingExportsFrom(_, _)
\* replace(/export\s+default\s+\w+;?\s*$/gmi, '') from position i on: an
\* export statement that ends its line goes, with the whitespace after it
\* up to the last line end.
RemoveTrailingExportsFrom(s, i) ==
    IF i > Len(s) THEN <<>>
    ELSE IF s[i] \in ExportLine /\ (i = Len(s) \/ s[i + 1] = "NL")
         THEN LET k == SkipWs(s, i + 1)
              IN  IF k > Len(s) THEN <<>>
                  ELSE RemoveTrailingExportsFrom(s, k - 1)
         ELSE <<s[i]>> \o RemoveTrailingExportsFrom(s, i + 1)

\* "Ensure proper component export"
EnsureExport(s) ==
    IF Has(s, ExportsGC) THEN s
    ELSE IF Has(s, ConstGC)
         THEN Trim(RemoveTrailingExportsFrom(s, 1))
              \o <<"NL", "NL", "EXP_GC">>
         ELSE createEnhancedFallbackReactComponent

preprocessCodeForReactLive(text) ==
    Trim(EnsureExport(AddMissingHooks(EnsureReactImport(
        CleanExports(StripProse(StripFences(text, MuiLangs)))))))

---------------------------------------------------------------------------
\* The react-native and flutter normalizers.

RECURSIVE StripLineEnds(_, _)
\* replace(/(?:export\s+default\s+\w+;)?\s*$/gmi, '') on a text without
\* "export default": every run of line ends shrinks to one line end, and the
\* run that ends the text goes.
StripLineEnds(s, i) ==
    IF i > Len(s) THEN <<>>
    ELSE IF s[i] = "NL"
         THEN LET k == SkipWs(s, i)
              IN  IF k > Len(s) THEN <<>>
                  ELSE <<"NL">> \o StripLineEnds(s, k)
         ELSE <<s[i]>> \o StripLineEnds(s, i + 1)

preprocessReactNativeCode(text) ==
    LET c1 == StripFences(text, RnLangs)
        c2 == IF Has(c1, ImportReact) THEN c1
              ELSE <<"IMPORT_REACT_US_EF", "NL", "IMPORT_RN", "NL", "NL">>
                   \o c1
        c3 == IF Has(c2, ExportDefault) THEN c2
              ELSE IF Has(c2, DefinesApp)
                   THEN Trim(StripLineEnds(c2, 1)) \o <<"NL", "NL", "EXP_APP">>
                   ELSE createEnhancedFallbackReactNativeComponent
    IN  Trim(c3)

preprocessFlutterCode(text) ==
    LET c1 == StripFences(text, FlutterLangs)
        c2 == IF Has(c1, ImportsMaterial) THEN c1
              ELSE <<"IMPORT_MATERIAL", "NL", "NL">> \o c1
        c3 == IF Has(c2, MainCall) THEN c2
              ELSE createEnhancedFallbackFlutterApp
    IN  Trim(c3)

\* The preprocessing dispatch of generateReactCode.
normalize(text, f) ==
    CASE f = "react-mui" -> preprocessCodeForReactLive(text)
      [] f = "react-native" -> preprocessReactNativeCode(text)
      [] f = "flutter" -> preprocessFlutterCode(text)
      [] OTHER -> text

Fallback(f) ==
    CASE f = "react-mui" -> createEnhancedFallbackReactComponent
      [] f = "react-native" -> createEnhancedFallbackReactNativeComponent
      [] f = "flutter" -> createEnhancedFallbackFlutterApp

---------------------------------------------------------------------------
\* generateReactCode: the validation and retry loop.

\* One attempt more than maxAttempts.
maxAttemptsRaised == 2 + 1

maxAttempts == 2

viewportWidths == {320, 768, 1280}

validateCode(c, format) ==
    IF c = <<>> THEN [valid |-> FALSE, message |-> "No code provided"]
    ELSE IF ~Has(c, IncludesReturn)
    THEN [valid |-> FALSE,
          message |-> "Code must contain a return statement"]
    ELSE IF format = "react-mui" THEN
        IF ~Has(c, IncludesAriaLabel) /\ ~Has(c, IncludesRole)
        THEN [valid |-> FALSE,
              message |-> "React-MUI code must include accessibility attributes (e.g., aria-label, role)"]
        ELSE IF ~Has(c, NamesGC)
        THEN [valid |-> FALSE,
              message |-> "React-MUI code must define GeneratedComponent"]
        ELSE IF ~Has(c, JsxTag)
        THEN [valid |-> FALSE,
              message |-> "React-MUI code must contain valid JSX"]
        ELSE IF ~Has(c, MediaQueryOrBreakpoints)
        THEN [valid |-> FALSE,
              message |-> "React-MUI code must include responsive breakpoints"]
        ELSE [valid |-> TRUE, message |-> ""]
    ELSE IF format = "react-native" THEN
        IF ~Has(c, IncludesAccessibleTrue)
           /\ ~Has(c, IncludesAccessibilityLabel)
        THEN [valid |-> FALSE,
              message |-> "React Native code must include accessibility props (e.g., accessible, accessibilityLabel)"]
        ELSE IF ~Has(c, NamesApp)
        THEN [valid |-> FALSE,
              message |-> "React Native code must define an App component"]
        ELSE IF ~Has(c, UsesDimensions)
        THEN [valid |-> FALSE,
              message |-> "React Native code must use Dimensions for responsive design"]
        ELSE [valid |-> TRUE, message |-> ""]
    ELSE IF format = "flutter" THEN
        IF ~Has(c, HasSemantics)
        THEN [valid |-> FALSE,
              message |-> "Flutter code must include Semantics widgets for accessibility"]
        ELSE IF ~Has(c, NamesApp)
        THEN [valid |-> FALSE,
              message |-> "Flutter code must define an App component"]
        ELSE IF ~Has(c, HasMediaQuery)
        THEN [valid |-> FALSE,
              message |-> "Flutter code must use MediaQuery for responsive design"]
        ELSE [valid |-> TRUE, message |-> ""]
    ELSE [valid |-> TRUE, message |-> ""]

\* The viewport widths for which an issue is pushed.
validateResponsiveDesign(c, format) ==
    {width \in viewportWidths :
        \/ format = "react-mui" /\ ~Has(c, SmBreakpoint) /\ width <= 768
        \/ format = "react-native" /\ ~Has(c, DimensionsBelow(width))
        \/ format = "flutter" /\ ~Has(c, ScreenWidthBelow(width))}

\* The MANDATORY lines refinePrompt appends after a failed validation.
mandatoryLines(c, codeFormat) ==
    CASE codeFormat = "react-mui" ->
            (IF ~Has(c, IncludesAriaLabel) \/ ~Has(c, IncludesRole)
             THEN {"aria-label and role"} ELSE {})
            \cup (IF ~Has(c, MediaQueryOrBreakpoints)
                  THEN {"useMediaQuery and breakpoints"} ELSE {})
            \cup (IF ~Has(c, NamesGC) THEN {"GeneratedComponent"} ELSE {})
      [] codeFormat = "react-native" ->
            (IF ~Has(c, IncludesAccessibleTrue)
                \/ ~Has(c, IncludesAccessibilityLabel)
             THEN {"accessible and accessibilityLabel"} ELSE {})
            \cup (IF ~Has(c, UsesDimensions) THEN {"Dimensions"} ELSE {})
            \cup (IF ~Has(c, NamesApp) THEN {"App"} ELSE {})
      [] codeFormat = "flutter" ->
            (IF ~Has(c, HasSemantics) THEN {"Semantics"} ELSE {})
            \cup (IF ~Has(c, HasMediaQuery) THEN {"MediaQuery"} ELSE {})
            \cup (IF ~Has(c, NamesApp) THEN {"MyApp and main()"} ELSE {})
      [] OTHER -> {}

\* The prompt is the sequence of the feedback blocks appended to the
\* original prompt: the message and the MANDATORY lines of a failed
\* validation (none when it passed), and the responsive issues.
refinePrompt(originalPrompt, c, codeFormat, validationResult, responsiveIssues) ==
    Append(originalPrompt,
           [failed |-> IF ~validationResult.valid
                       THEN validationResult.message ELSE "",
            mandatory |-> IF ~validationResult.valid
                          THEN mandatoryLines(c, codeFormat) ELSE {},
            responsive |-> responsiveIssues])

NoResult == <<"NO_RESULT">>

\* generateReactCode is called: the prompt is built and the loop is entered.
GenerateStart ==
    /\ gpc = "idle"
    /\ code' = <<>>
    /\ attempts' = 0
    /\ prompt' = <<>>
    /\ gpc' = IF 0 < maxAttempts THEN "calling" ELSE "raised"
    /\ UNCHANGED <<fmt, llmCalls, result, normVars, previewVars, dartVars, restVars>>

\* chat.completions.create resolves with content text (an absent content
\* is the empty text); the rest of the loop body runs.
LlmReturns(text) ==
    /\ gpc = "calling"
    /\ attempts < maxAttempts
    /\ llmCalls' = llmCalls + 1
    /\ LET c == normalize(text, fmt)
           validationResult == validateCode(c, fmt)
           responsiveIssues == validateResponsiveDesign(c, fmt)
       IN  /\ code' = c
           /\ IF validationResult.valid /\ responsiveIssues = {}
              THEN /\ gpc' = "returned"
                   /\ result' = c
                   /\ UNCHANGED <<prompt, attempts>>
              ELSE /\ prompt' = refinePrompt(prompt, c, fmt,
                                             validationResult,
                                             responsiveIssues)
                   /\ attempts' = attempts + 1
                   /\ gpc' = IF attempts + 1 < maxAttempts
                             THEN "calling" ELSE "raised"
                   /\ UNCHANGED result
    /\ UNCHANGED <<fmt, normVars, previewVars, dartVars, restVars>>

\* chat.completions.create rejects: the catch block rethrows.
LlmThrows ==
    /\ gpc = "calling"
    /\ attempts < maxAttempts
    /\ llmCalls' = llmCalls + 1
    /\ gpc' = "raised"
    /\ UNCHANGED <<fmt, attempts, code, result, prompt, normVars,
                   previewVars, dartVars, restVars>>

---------------------------------------------------------------------------
\* LivePreview: fixImportStatements and prepareCodeForPreview.

\* Language tags of the fence regexp of the preview that are lexemes.
PreviewLangs == {"JSX", "DART"}

\* replace(/```(?:<langs>)?\s*|```\s*$/g, ''): every fence is a match of
\* the first alternative.
StripFencesOnce(s, langs) == StripFrom(s, 1, langs, FALSE)

NotImport(t) == t \notin ImportStatement

\* code.replace(importRegex, '').trim()
codeWithoutImports(s) == Trim(SelectSeq(s, NotImport))

\* The names imported from module m by the import statements of s.
NamedFrom(s, m) ==
    UNION {namedImports(s[i]) :
             i \in {j \in 1..Len(s) :
                      s[j] \in ImportStatement /\ modulePath(s[j]) = m}}

\* Modules whose path contains "@mui".
MuiModules == {"@mui/material", "@mui/icons-material"}

RECURSIVE Lines(_)
\* Each statement of imps followed by a line end.
Lines(imps) ==
    IF imps = <<>> THEN <<>>
    ELSE <<Head(imps), "NL">> \o Lines(Tail(imps))

fixImportStatements(s, format) ==
    CASE format = "flutter" ->
            Trim(StripFencesOnce(Trim(s), {"DART"}))
      [] format = "react-native" ->
            LET reactNamedImports == NamedFrom(s, "react")
                rnNamedImports == NamedFrom(s, "react-native") \ {"Picker"}
                needsReactNativePickerImport ==
                    \/ "Picker" \in NamedFrom(s, "react-native")
                    \/ \E i \in 1..Len(s) :
                          /\ s[i] \in ImportStatement
                          /\ modulePath(s[i]) = "@react-native-picker/picker"
                IsOther(t) ==
                    /\ t \in ImportStatement
                    /\ modulePath(t) \notin
                          {"react", "react-native",
                           "@react-native-picker/picker"} \cup MuiModules
            IN  <<reactImportString(reactNamedImports), "NL">>
                \o (IF rnNamedImports # {}
                    THEN <<rnImportString(rnNamedImports), "NL">> ELSE <<>>)
                \o (IF needsReactNativePickerImport \/ Has(s, PickerUse)
                    THEN <<"IMPORT_PICKER", "NL">> ELSE <<>>)
                \o Lines(SelectSeq(s, IsOther))
                \o <<"NL">> \o codeWithoutImports(s)
      [] format = "react-mui" ->
            LET reactNamedImports == NamedFrom(s, "react")
                muiComponents == NamedFrom(s, "@mui/material")
                IsOther(t) ==
                    /\ t \in ImportStatement
                    /\ modulePath(t) \notin {"react", "@mui/material"}
            IN  <<reactImportString(reactNamedImports), "NL">>
                \o (IF muiComponents # {}
                    THEN <<muiImportString(muiComponents), "NL">> ELSE <<>>)
                \o Lines(SelectSeq(s, IsOther))
                \o <<"NL">> \o codeWithoutImports(s)
      [] OTHER -> s

\* replace(/GeneratedComponent/g, 'App') on one lexeme.
RenameToApp(t) ==
    CASE t = "DEF_CONST_GC" -> "DEF_CONST_APP"
      [] t = "DEF_TYPED_GC" -> "DEF_TYPED_APP"
      [] t = "DEF_FUNC_GC" -> "DEF_FUNC_APP"
      [] t = "EXP_GC" -> "EXP_APP"
      [] t = "EXP_FUNC_GC" -> "EXP_FUNC_APP"
      [] t = "FB_MUI_DEF" -> "FB_MUI_DEF_APP"
      [] t \notin NamesGC -> t

RenameAll(s) == [i \in 1..Len(s) |-> RenameToApp(s[i])]

RECURSIVE RemoveLines(_, _, _)
\* replace(/^\s*<statement>\s*$/gm, '') from position i on, for the
\* statements in set: a statement that has its line to itself goes, with
\* the line ends before it back to the start of its first blank line and
\* the line ends after it up to the last one.
RemoveLines(s, i, set) ==
    IF i > Len(s) THEN <<>>
    ELSE LET k == SkipWs(s, i)
             e == SkipWs(s, k + 1)
         IN  IF /\ i = 1 \/ s[i - 1] = "NL"
                /\ k <= Len(s)
                /\ s[k] \in set
                /\ k = Len(s) \/ s[k + 1] = "NL"
             THEN IF e > Len(s) THEN <<>>
                  ELSE RemoveLines(s, e - 1, set)
             ELSE <<s[i]>> \o RemoveLines(s, i + 1, set)

\* The component that shows the raw code when nothing could be parsed.
PreviewErrorApp == <<"PREVIEW_ERROR_OPEN", "RAW_JSON", "PREVIEW_ERROR_CLOSE">>

\* prepareCodeForPreview for texts without EXP_BARE (with it, the export
\* expression of the react-mui branch can match across lexemes).
prepareCodeForPreview(rawCode, codeFormat) ==
    IF Trim(rawCode) = <<>>
    THEN IF codeFormat = "flutter" THEN <<"NO_CODE_FLUTTER">>
         ELSE <<"NO_CODE_APP">>
    ELSE
    LET fixed == fixImportStatements(Trim(rawCode), codeFormat)
        processedCode == Trim(StripFencesOnce(fixed, PreviewLangs))
    IN  CASE codeFormat = "flutter" -> processedCode
          [] codeFormat = "react-native" ->
                LET renamed == RenameAll(processedCode)
                IN  IF Has(renamed, ExportsApp) THEN renamed
                    ELSE IF Has(renamed, FunctionAppOrConstAppEq)
                         THEN renamed \o <<"NL", "NL", "EXP_APP">>
                         ELSE <<"RN_WRAP_OPEN">> \o renamed
                              \o <<"RN_WRAP_CLOSE", "NL", "NL", "EXP_APP">>
          [] codeFormat \notin {"flutter", "react-native"}
             /\ ~Has(rawCode, {"EXP_BARE"}) ->
                LET renamed == RenameAll(processedCode)
                    noDefault == Trim(RemoveLines(renamed, 1, ExportStmtLine))
                    noExport == Trim(RemoveLines(noDefault, 1, ExportDeclLine))
                    isAlreadyAppComponentDefinition ==
                        Has(noExport, FunctionAppParenOrConstAppEq)
                    seemsLikeJSX ==
                        /\ Has(noExport, HasLt)
                        /\ Has(noExport, HasGt)
                        /\ Has(noExport, JsxLike)
                    wrappedJsx ==
                        IF Has(noExport, HasNewline)
                           /\ ~(noExport # <<>> /\ Head(noExport) \in StartsParen)
                        THEN <<"PAREN_OPEN">> \o noExport \o <<"PAREN_CLOSE">>
                        ELSE noExport
                    component ==
                        IF isAlreadyAppComponentDefinition THEN noExport
                        ELSE IF seemsLikeJSX
                             THEN <<"WRAP_OPEN">> \o wrappedJsx
                                  \o <<"WRAP_CLOSE">>
                             ELSE PreviewErrorApp
                IN  IF Has(component, ExportsApp) THEN component
                    ELSE component \o <<"NL", "NL", "EXP_APP">>

---------------------------------------------------------------------------
\* LivePreview: the preview hosts.

maxUrlLength == 7000

RECURSIVE encodedLength(_, _)
\* encodeURIComponent(s).length, PAD standing for pad letters a.
encodedLength(s, pad) ==
    IF s = <<>> THEN 0
    ELSE (IF Head(s) = "PAD" THEN pad ELSE EncLen(Head(s)))
         + encodedLength(Tail(s), pad)

\* match[1] of the first widget class of s, MyApp when there is none.
widgetName(s) ==
    IF Has(s, WidgetClass) THEN WidgetClassName(s[FirstIn(s, WidgetClass)])
    ELSE "MyApp"

\* `void main() {\n  runApp(const ${widgetName}());\n}`
GeneratedMain(name) ==
    CASE name = "MyApp" -> "GEN_MAIN_MYAPP"
      [] name = "HomeScreen" -> "GEN_MAIN_HOME"

\* cleanCode of createDartPadUrl when it is encoded.
cleanDartCode(flutterCode) ==
    LET c1 == Trim(StripFencesOnce(Trim(flutterCode), {"DART"}))
        c2 == IF Has(c1, ImportsMaterial) THEN c1
              ELSE <<"IMPORT_MATERIAL", "NL", "NL">> \o c1
    IN  IF ~Has(c2, VoidMain) /\ ~Has(c2, RunApp)
        THEN c2 \o <<"NL", "NL", GeneratedMain(widgetName(c2))>>
        ELSE c2

simpleFlutterApp == <<"SIMPLE_FLUTTER_APP">>

\* createDartPadUrl with < for <= .
createDartPadUrlBelow(flutterCode, pad) ==
    LET cleanCode == cleanDartCode(flutterCode)
    IN  IF encodedLength(cleanCode, pad) < maxUrlLength
        THEN [host |-> "dartpad.dev", source |-> cleanCode,
              length |-> encodedLength(cleanCode, pad)]
        ELSE [host |-> "dartpad.dev", source |-> simpleFlutterApp,
              length |-> encodedLength(simpleFlutterApp, pad)]

\* The URL createDartPadUrl returns: its host and the source it carries in
\* its source parameter.
createDartPadUrl(flutterCode, pad) ==
    LET cleanCode == cleanDartCode(flutterCode)
    IN  IF encodedLength(cleanCode, pad) <= maxUrlLength
        THEN [host |-> "dartpad.dev", source |-> cleanCode,
              length |-> encodedLength(cleanCode, pad)]
        ELSE [host |-> "dartpad.dev", source |-> simpleFlutterApp,
              length |-> encodedLength(simpleFlutterApp, pad)]

\* The URL createSnackUrl returns: its host and the App.js of the config
\* it carries.
createSnackUrl(reactNativeCode) ==
    [host |-> "snack.expo.dev", source |-> reactNativeCode]

\* The files createCodeSandboxUrl posts; the entry file src/index.js is
\* given by the component name and the module path of its import.
sandboxFiles(reactCode) ==
    [packageJson |-> "llm-generated-react-app",
     indexHtml |-> "React Preview",
     appJs |-> reactCode,
     indexJs |-> [imports |-> "App", from |-> "./App"]]

NoUrl == [host |-> "", source |-> <<>>]
NoError == "null"
NoFiles == [packageJson |-> "", indexHtml |-> "", appJs |-> <<>>,
            indexJs |-> [imports |-> "", from |-> ""]]

\* The body of initializePreview up to its first await, or to its end when
\* it awaits nothing, for the code prop c.
RunInitializePreview(c) ==
    IF Trim(c) = <<>>
    THEN /\ error' = "No code provided for preview"
         /\ previewUrl' = NoUrl
         /\ isLoading' = FALSE
         /\ ppc' = "done"
         /\ UNCHANGED files
    ELSE /\ error' = NoError
         /\ CASE fmt = "react-mui" ->
                    /\ files' = sandboxFiles(prepareCodeForPreview(c, fmt))
                    /\ previewUrl' = NoUrl
                    /\ isLoading' = TRUE
                    /\ ppc' = "awaiting"
              [] fmt = "react-native" ->
                    /\ previewUrl' =
                           createSnackUrl(prepareCodeForPreview(c, fmt))
                    /\ isLoading' = FALSE
                    /\ ppc' = "done"
                    /\ UNCHANGED files
              [] fmt = "flutter" ->
                    /\ previewUrl' = NoUrl
                    /\ isLoading' = TRUE
                    /\ ppc' = "awaiting"
                    /\ UNCHANGED files

\* The effect of LivePreview runs for the code prop, the normalized text.
InitializePreview ==
    /\ npc = "once"
    /\ ppc = "idle"
    /\ IF Trim(out) = <<>>
       THEN /\ error' = "No code provided for preview. Please enter some code."
            /\ isLoading' = FALSE
            /\ ppc' = "done"
            /\ UNCHANGED <<previewUrl, files>>
       ELSE RunInitializePreview(out)
    /\ response' = "none"
    /\ UNCHANGED <<fmt, normVars, genVars, dartVars, restVars>>

\* The Refresh Preview button, enabled when nothing is loading, calls
\* initializePreview again.
RefreshPreview ==
    /\ ppc \in {"done", "loaded", "failed"}
    /\ ~isLoading
    /\ RunInitializePreview(out)
    /\ response' = "none"
    /\ UNCHANGED <<fmt, normVars, genVars, dartVars, restVars>>

\* The iframe is rendered when there is a URL and no error.
IframeRendered == previewUrl # NoUrl /\ error = NoError

\* The iframe loads and the timer of handleIframeLoad fires.
HandleIframeLoad ==
    /\ ppc = "done"
    /\ IframeRendered
    /\ isLoading' = FALSE
    /\ ppc' = "loaded"
    /\ UNCHANGED <<fmt, previewUrl, error, files, response, normVars,
                   genVars, dartVars, restVars>>

\* The iframe fails to load.
HandleIframeError ==
    /\ ppc = "done"
    /\ IframeRendered
    /\ error' = "Failed to load preview content. The preview service might be temporarily unavailable."
    /\ isLoading' = FALSE
    /\ ppc' = "failed"
    /\ UNCHANGED <<fmt, previewUrl, files, response, normVars, genVars,
                   dartVars, restVars>>

\* FetchOk without setPreviewUrl.
FetchOkNoUrl ==
    /\ ppc = "awaiting"
    /\ fmt = "react-mui"
    /\ response' = "ok"
    /\ isLoading' = FALSE
    /\ ppc' = "done"
    /\ UNCHANGED <<fmt, previewUrl, error, files, normVars, genVars,
                   dartVars, restVars>>

\* The define request resolves with ok and a sandbox id.
FetchOk ==
    /\ ppc = "awaiting"
    /\ fmt = "react-mui"
    /\ response' = "ok"
    /\ previewUrl' = [host |-> "codesandbox.io", source |-> files.appJs]
    /\ isLoading' = FALSE
    /\ ppc' = "done"
    /\ UNCHANGED <<fmt, error, files, normVars, genVars, dartVars, restVars>>

\* FetchFail without the finally block of initializePreview.
FetchFailStillLoading(kind) ==
    /\ ppc = "awaiting"
    /\ fmt = "react-mui"
    /\ response' = kind
    /\ error' = "Failed to create CodeSandbox preview"
    /\ ppc' = "done"
    /\ UNCHANGED <<fmt, previewUrl, isLoading, files, normVars, genVars,
                   dartVars, restVars>>

\* The define request rejects, resolves without ok, or resolves without a
\* sandbox id: createCodeSandboxUrl throws and initializePreview catches.
FetchFail(kind) ==
    /\ ppc = "awaiting"
    /\ fmt = "react-mui"
    /\ response' = kind
    /\ error' = "Failed to create CodeSandbox preview"
    /\ isLoading' = FALSE
    /\ ppc' = "done"
    /\ UNCHANGED <<fmt, previewUrl, files, normVars, genVars, dartVars, restVars>>

\* encodeURIComponent throws on cleanCode of createDartPadUrl.
DartPadThrows(flutterCode) == Has(cleanDartCode(flutterCode), Malformed)

\* The promise of createDartPadUrl resolves.
DartPadResolves ==
    /\ ppc = "awaiting"
    /\ fmt = "flutter"
    /\ ~DartPadThrows(prepareCodeForPreview(out, fmt))
    /\ previewUrl' = createDartPadUrl(prepareCodeForPreview(out, fmt), padLen)
    /\ isLoading' = FALSE
    /\ ppc' = "done"
    /\ UNCHANGED <<fmt, error, files, response, normVars, genVars, dartVars, restVars>>

\* The promise of createDartPadUrl rejects: encodeURIComponent threw,
\* createDartPadUrl wrapped the error and initializePreview catches it.
DartPadRejects ==
    /\ ppc = "awaiting"
    /\ fmt = "flutter"
    /\ DartPadThrows(prepareCodeForPreview(out, fmt))
    /\ error' = "Failed to create DartPad preview: URI malformed"
    /\ isLoading' = FALSE
    /\ ppc' = "done"
    /\ UNCHANGED <<fmt, previewUrl, files, response, normVars, genVars,
                   dartVars, restVars>>

\* createDartPadUrl is called with dartSource.
CreateDartPadUrl ==
    /\ dpc = "source"
    /\ dartUrl' = createDartPadUrl(dartSource, padLen)
    /\ dpc' = "done"
    /\ UNCHANGED <<fmt, dartSource, padLen, normVars, genVars, previewVars, restVars>>

---------------------------------------------------------------------------
\* Raw texts.

RECURSIVE Expand(_)
\* In the alphabets FENCE is short for three backticks in a row.
Expand(s) ==
    IF s = <<>> THEN <<>>
    ELSE (IF Head(s) = "FENCE" THEN <<"BT", "BT", "BT">> ELSE <<Head(s)>>)
         \o Expand(Tail(s))

Texts(A, n) == {Expand(x) : x \in UNION {[1..k -> A] : k \in 0..n}}

Alphabet(f) ==
    CASE f = "react-mui" ->
            {"FENCE", "JSX", "NL", "PROSE", "IMPORT_REACT", "HOOK_USE",
             "DEF_CONST_GC", "DEF_FUNC_GC", "EXP_GC", "EXP_FOO",
             "EXP_FUNC_GC", "EXP_ANON", "EXP_BARE"}
      [] f = "react-native" ->
            {"FENCE", "JSX", "NL", "PROSE", "IMPORT_REACT", "DEF_CONST_APP",
             "DEF_FUNC_APP", "EXP_APP", "EXP_FOO", "EXP_FUNC_APP"}
      [] f = "flutter" ->
            {"FENCE", "DART", "NL", "PROSE", "IMPORT_MATERIAL", "VOID_MAIN",
             "MAIN_ARGS", "CLASS_WIDGET", "PROSE_MAIN"}

FenceAlphabet(f) ==
    {"FENCE", "BT", "JSX", "DART", "NL"} \cup
    (CASE f = "react-mui" -> {"DEF_CONST_GC"}
       [] f = "react-native" -> {"DEF_CONST_APP"}
       [] f = "flutter" -> {"VOID_MAIN"})

\* Longest model response, in lexemes, of the generation runs.
MaxGenLen == 2

GenAlphabet(f) ==
    CASE f = "react-mui" ->
            {"FENCE", "NL", "DEF_CONST_GC", "GOOD_MUI_DEF", "A11Y_MUI_DEF",
             "EXP_GC"}
      [] f = "react-native" ->
            {"FENCE", "NL", "DEF_CONST_APP", "GOOD_RN_DEF", "EXP_APP"}
      [] f = "flutter" ->
            {"FENCE", "NL", "VOID_MAIN", "CLASS_WIDGET", "GOOD_FL_BODY"}
      [] OTHER -> {"NL", "PROSE", "DEF_CONST_GC"}

Responses(f) == Texts(GenAlphabet(f), MaxGenLen)

\* Longest raw text, in lexemes, of the preview runs.
MaxPreviewLen == 3

PreviewAlphabet(f) ==
    CASE f = "react-mui" ->
            {"NL", "IMPORT_REACT", "HOOK_USE", "DEF_CONST_GC", "DEF_TYPED_GC",
             "DEF_FUNC_GC", "EXP_GC", "EXP_ANON"}
      [] f = "react-native" ->
            {"NL", "IMPORT_REACT", "DEF_CONST_APP", "DEF_TYPED_APP",
             "DEF_FUNC_APP", "EXP_APP", "EXP_FOO", "EXP_FUNC_APP"}
      [] f = "flutter" ->
            {"NL", "FENCE", "IMPORT_MATERIAL", "VOID_MAIN", "CLASS_HOME",
             "PROSE_MAIN", "SURROGATE"}

\* Longest Dart source, in lexemes, and the least and greatest length of
\* its PAD lexemes.
MaxDartLen == 3
MinPad == 6850
MaxPad == 7000

DartAlphabet ==
    {"NL", "FENCE", "IMPORT_MATERIAL", "VOID_MAIN", "CLASS_HOME", "PAD"}

FetchFailures == {"rejected", "not ok", "no sandbox id"}

---------------------------------------------------------------------------
\* Initial states and specifications.

NormIdle == out = <<>> /\ out2 = <<>> /\ npc = "raw"

GenIdle ==
    /\ gpc = "idle" /\ attempts = 0 /\ llmCalls = 0
    /\ code = <<>> /\ result = NoResult /\ prompt = <<>>

PreviewIdle ==
    /\ ppc = "idle" /\ isLoading = TRUE /\ previewUrl = NoUrl
    /\ error = NoError /\ files = NoFiles /\ response = "none"

DartIdle ==
    /\ dartSource = <<>> /\ padLen = 0 /\ dartUrl = NoUrl /\ dpc = "source"

\* No generate-all loop is running.
NoRun == [valid |-> <<>>, i |-> 0, userPrompt |-> ""]

AppIdle ==
    /\ images = <<>> /\ nextId = 1 /\ selectedImageId = 0
    /\ isPreviewOpen = FALSE /\ notifications = <<>>
    /\ globalProgress = 0 /\ isGeneratingAll = FALSE
    /\ inflight = {} /\ uploads = {} /\ allRun = NoRun

BackendIdle ==
    /\ uiDescription = "" /\ isGenerating = FALSE /\ generatedCode = ""
    /\ editorError = "" /\ posted = {} /\ routeCalls = {} /\ replies = {}

\* What is at a path that has no file; a file is the tuple of its lines and
\* has at least one.
NoFile == <<>>

MoreIdle ==
    /\ projectExists = FALSE /\ versionFiles = <<>>
    /\ componentFile = NoFile /\ publishes = {} /\ published = <<>>
    /\ appJs = NoFile /\ backupDirs = <<>> /\ backupRuns = {}
    /\ reported = <<>>
    /\ uploadedImages = <<>> /\ parentImages = <<>> /\ uploadError = ""
    /\ now = 0 /\ nextFile = 1
    /\ inits = <<>> /\ loadTimers = 0

RestIdle == userPrompt = "" /\ AppIdle /\ BackendIdle /\ MoreIdle

InitNorm ==
    /\ fmt \in Formats
    /\ raw \in Texts(Alphabet(fmt), MaxLen)
    /\ NormIdle /\ GenIdle /\ PreviewIdle /\ DartIdle /\ RestIdle

InitFence ==
    /\ fmt \in Formats
    /\ raw \in Texts(FenceAlphabet(fmt), MaxFenceLen)
    /\ NormIdle /\ GenIdle /\ PreviewIdle /\ DartIdle /\ RestIdle

InitGen ==
    /\ fmt \in Formats \cup OtherFormats
    /\ raw = <<>>
    /\ NormIdle /\ GenIdle /\ PreviewIdle /\ DartIdle /\ RestIdle

InitPreview ==
    /\ fmt \in Formats
    /\ raw \in Texts(PreviewAlphabet(fmt), MaxPreviewLen)
    /\ NormIdle /\ GenIdle /\ PreviewIdle /\ DartIdle /\ RestIdle

InitDart ==
    /\ fmt = "flutter"
    /\ raw = <<>>
    /\ NormIdle /\ GenIdle /\ PreviewIdle /\ RestIdle
    /\ dartSource \in Texts(DartAlphabet, MaxDartLen)
    /\ padLen \in MinPad..MaxPad
    /\ dartUrl = NoUrl /\ dpc = "source"

\* The normalizer is applied to the raw text.
Normalize ==
    /\ npc = "raw"
    /\ out' = normalize(raw, fmt)
    /\ npc' = "once"
    /\ UNCHANGED <<fmt, raw, out2, genVars, previewVars, dartVars, restVars>>

\* The normalizer is applied to its own output.
NormalizeAgain ==
    /\ npc = "once"
    /\ out2' = normalize(out, fmt)
    /\ npc' = "twice"
    /\ UNCHANGED <<fmt, raw, out, genVars, previewVars, dartVars, restVars>>

NextNorm == Normalize \/ NormalizeAgain

NextGen ==
    \/ GenerateStart
    \/ \E text \in Responses(fmt) : LlmReturns(text)
    \/ LlmThrows

NextPreview ==
    \/ Normalize
    \/ InitializePreview
    \/ FetchOk
    \/ \E kind \in FetchFailures : FetchFail(kind)
    \/ DartPadResolves
    \/ DartPadRejects
    \/ HandleIframeLoad
    \/ HandleIframeError
    \/ RefreshPreview

NextDart == CreateDartPadUrl

SpecNorm == InitNorm /\ [][NextNorm]_vars

SpecFence == InitFence /\ [][NextNorm]_vars

SpecGen == InitGen /\ [][NextGen]_vars

SpecPreview == InitPreview /\ [][NextPreview]_vars

SpecDart == InitDart /\ [][NextDart]_vars

---------------------------------------------------------------------------
\* Properties of the normalizers.

\* C1: normalizing the normalizer's output gives that output back, for
\* every raw text and format: normalize(normalize(x, f), f) = normalize(x, f).
C1_Idempotent == npc = "twice" => out2 = out

\* Lexemes that define a component named GeneratedComponent / App.
DefinesGC ==
    {"DEF_CONST_GC", "DEF_TYPED_GC", "DEF_FUNC_GC", "FB_MUI_DEF",
     "GOOD_MUI_DEF", "A11Y_MUI_DEF"}
DefinesAppComponent ==
    {"DEF_CONST_APP", "DEF_TYPED_APP", "DEF_FUNC_APP", "FB_RN_DEF",
     "GOOD_RN_DEF"}
\* Lexemes that define a main function.
DefinesMain == {"VOID_MAIN", "MAIN_ARGS", "FB_FL_BODY", "GOOD_FL_BODY"}

HasEntryPoint(s, f) ==
    CASE f = "react-mui" ->
            \/ Has(s, DefinesGC) /\ Has(s, {"EXP_GC"})
            \/ Has(s, {"EXP_FUNC_GC"})
      [] f = "react-native" ->
            \/ Has(s, DefinesAppComponent) /\ Has(s, {"EXP_APP"})
            \/ Has(s, {"EXP_FUNC_APP"})
      [] f = "flutter" -> Has(s, DefinesMain)

\* C2: the normalizer's output always contains the entry point of its
\* format: GeneratedComponent defined and default-exported, App defined and
\* default-exported, or a main function.
C2_EntryPointPresent == npc # "raw" => HasEntryPoint(out, fmt)

\* The component definition a lexeme carries.
Body(t) ==
    CASE t \in {"DEF_CONST_GC"} -> "const-body"
      [] t \in {"DEF_TYPED_GC"} -> "typed-body"
      [] t \in {"DEF_FUNC_GC", "EXP_FUNC_GC"} -> "function-body"
      [] OTHER -> "none"

\* C3: when the raw react-mui text defines GeneratedComponent, as a
\* function or a const, the normalizer's output still contains every such
\* definition.
C3_BodyKept ==
    (npc # "raw" /\ fmt = "react-mui") =>
        \A i \in 1..Len(raw) :
            Body(raw[i]) # "none" =>
                \E j \in 1..Len(out) : Body(out[j]) = Body(raw[i])

\* Complete export default statements.
ExportStatement == ExportWord \cup {"EXP_ANON"}

Count(s, set) == Cardinality({i \in 1..Len(s) : s[i] \in set})

\* C4: a raw react-mui text with two or more export default statements is
\* normalized to a text with exactly one, export default GeneratedComponent;
C4_SingleExport ==
    (npc # "raw" /\ fmt = "react-mui" /\ Count(raw, ExportStatement) >= 2) =>
        /\ Count(out, ExportDefault) = 1
        /\ Count(out, {"EXP_GC"}) = 1

HasFence(s) == \E i \in 1..Len(s) : IsFenceAt(s, i)

\* C5: whatever the format and wherever fence markers stand in the raw
\* text, tagged or not, the normalizer's output has no triple backtick.
C5_NoFenceLeft == npc # "raw" => ~HasFence(out)

\* A raw text with a tagged fence after its first lexeme and a second fence
\* has been normalized.
C5_Witness ==
    /\ npc = "once"
    /\ \E i \in 2..Len(raw) : \E j \in 1..Len(raw) :
          /\ IsFenceAt(raw, i) /\ i + 3 <= Len(raw) /\ raw[i + 3] = "JSX"
          /\ IsFenceAt(raw, j) /\ j >= i + 4
    /\ out # Fallback(fmt)

---------------------------------------------------------------------------
\* Properties of generateReactCode.

\* C6: one call of generateReactCode calls the model at most twice; what it
\* returns is the normalized text of an attempt that passed validateCode
\* with no responsive issue; after two failed attempts the call has raised
\* and returned nothing, and it calls the model no more.
C6_TwoAttempts ==
    /\ llmCalls <= 2
    /\ gpc = "returned" =>
          /\ result = code
          /\ validateCode(result, fmt).valid
          /\ validateResponsiveDesign(result, fmt) = {}
    /\ gpc # "returned" => result = NoResult
    /\ attempts >= 2 => gpc = "raised"
    /\ gpc = "calling" => attempts < 2 /\ llmCalls < 2

\* Two attempts failed validation and the call raised.
C6_Witness == gpc = "raised" /\ attempts = 2 /\ llmCalls = 2

\* C7: whenever the normalizer substituted the fallback placeholder of the
\* format for a response, generateReactCode returns that placeholder and
\* does not raise.
C7_FallbackReturned ==
    (fmt \in Formats /\ llmCalls >= 1 /\ code = Fallback(fmt)) =>
        (gpc = "returned" /\ result = Fallback(fmt))

---------------------------------------------------------------------------
\* Properties of the preview.

IsBlank(s) == \A i \in 1..Len(s) : s[i] = "NL"

\* C8 as stated: an empty or whitespace-only raw text is normalized to the
\* fallback of its format, and the preview built from it ends with a URL
\* and without an error, for each format.
C8_BlankPreviewAlwaysBuilt ==
    (IsBlank(raw) /\ npc # "raw") =>
        /\ out = Fallback(fmt)
        /\ ppc = "done" => (previewUrl # NoUrl /\ error = NoError)

\* C8: an empty or whitespace-only raw text is normalized to the fallback
\* of its format; the preview built from it ends with a URL and without an
\* error for react-native and flutter, and for react-mui when the define
\* request returned a sandbox id; when that request failed the react-mui
\* preview ends with an error and without a URL; and when the iframe then
\* fails to load the URL, the error state is entered.
C8_BlankPreviewBuilt ==
    (IsBlank(raw) /\ npc # "raw") =>
        /\ out = Fallback(fmt)
        /\ ppc = "done" =>
              IF fmt = "react-mui" /\ response \in FetchFailures
              THEN previewUrl = NoUrl /\ error # NoError
              ELSE previewUrl # NoUrl /\ error = NoError
        /\ ppc = "failed" => (previewUrl # NoUrl /\ error # NoError)
        /\ ppc = "loaded" => (previewUrl # NoUrl /\ error = NoError)

\* The preview of the fallback of a blank react-mui text has been built.
C8_Witness ==
    /\ IsBlank(raw) /\ fmt = "react-mui" /\ ppc = "done"
    /\ response = "ok" /\ previewUrl.source = files.appJs
    /\ Has(previewUrl.source, {"FB_MUI_DEF_APP"})

\* Lexemes that open a component wrapped around a text.
Wrappers == {"WRAP_OPEN", "PREVIEW_ERROR_OPEN"}

---------------------------------------------------------------------------
\* Properties of createDartPadUrl.

\* C9: when the encoded length of the cleaned source is above 7000 the URL
\* carries the fixed short Flutter app; otherwise it carries the whole
\* cleaned source, at its full encoded length; and the short app's own
\* encoded length is within 7000.
C9_Threshold ==
    dpc = "done" =>
        LET cleanCode == cleanDartCode(dartSource)
            n == encodedLength(cleanCode, padLen)
        IN  /\ n > 7000 => dartUrl.source = <<"SIMPLE_FLUTTER_APP">>
            /\ n <= 7000 => (dartUrl.source = cleanCode /\ dartUrl.length = n)
            /\ encodedLength(<<"SIMPLE_FLUTTER_APP">>, padLen) <= 7000

\* A source whose cleaned text encodes to exactly 7000 characters went
\* into the URL whole.
C9_Witness ==
    /\ dpc = "done"
    /\ encodedLength(cleanDartCode(dartSource), padLen) = 7000
    /\ Has(dartSource, {"PAD"})
    /\ dartUrl.source = cleanDartCode(dartSource)

---------------------------------------------------------------------------
\* src/src/App.tsx: the images, their descriptions and codes, and the
\* requests the App has pending.  A description is "" or a text; a code is
\* "" or a text that validateCode accepts ("valid") or rejects ("invalid").
\* userPrompt keeps its initial value, the empty string.

\* Most images uploaded in one behaviour.
MaxImages == 2

\* Most notifications shown at once: the timers of addNotification fire in
\* the order the notifications were added, and those of the older ones are
\* taken to have fired when more are added.
MaxNotifications == 1

ImageIds == 1..MaxImages

\* The texts the description editor sets, and the texts the description
\* model and the code model resolve with.
Descriptions == {"", "text"}
Contents == {"text"}
GeneratedCodes == {"valid"}

\* images.find((img) => img.id === id): its index, 0 when there is none.
Find(imgs, id) ==
    IF \E k \in DOMAIN imgs : imgs[k].id = id
    THEN CHOOSE k \in DOMAIN imgs : imgs[k].id = id
    ELSE 0

\* prev.map((img) => img.id === id ? { ...img, ...upd } : img)
SetFields(imgs, id, upd) ==
    [k \in DOMAIN imgs |-> IF imgs[k].id = id THEN upd @@ imgs[k]
                           ELSE imgs[k]]

\* images.filter((img) => img.description)
ValidImages(imgs) == SelectSeq(imgs, LAMBDA img : img.description # "")

\* The last MaxNotifications elements of ns.
Shown(ns) ==
    IF Len(ns) <= MaxNotifications THEN ns
    ELSE SubSeq(ns, Len(ns) - MaxNotifications + 1, Len(ns))

\* addNotification called once for each type of types, in order.
addNotification(types) == notifications' = Shown(notifications \o types)

\* The pending call generateUIDescription(image.file) of an upload loop.
DescribeRequest(id) ==
    [op |-> "describe", origin |-> "upload", image |-> id,
     description |-> "", userPrompt |-> "", stage |-> "preprocess",
     visionAnalysis |-> "none"]

\* The pending call generateReactCode(image.description, userPrompt, ...).
\* Two pending calls with the same arguments are kept as one.
CodeRequest(origin, id, d, p) ==
    [op |-> "code", origin |-> origin, image |-> id, description |-> d,
     userPrompt |-> p, stage |-> "llm", visionAnalysis |-> "none"]

\* handleImagesUploaded with n files: the images are appended, the first
\* is selected when nothing is, and the loop starts on the first.
HandleImagesUploaded(n) ==
    /\ nextId + n - 1 <= MaxImages
    /\ LET newImages == [k \in 1..n |->
                            [id |-> nextId + k - 1, description |-> "",
                             code |-> "", isGenerating |-> FALSE]]
       IN  /\ images' = SetFields(images \o newImages, nextId,
                                  [isGenerating |-> TRUE])
           /\ uploads' = uploads \cup {[k \in 1..n |-> nextId + k - 1]}
    /\ selectedImageId' =
           IF selectedImageId = 0 THEN nextId ELSE selectedImageId
    /\ inflight' = inflight \cup {DescribeRequest(nextId)}
    /\ nextId' = nextId + n
    /\ UNCHANGED <<fmt, normVars, genVars, previewVars, dartVars, userPrompt,
                   isPreviewOpen, notifications, globalProgress,
                   isGeneratingAll, allRun,
                   backendVars, moreVars>>

\* fileToBase64 resolved and preprocessImage ends: with the analysis
\* ("full"), or in its catch block with { elements: [], responsiveHints: [] }
\* ("empty"); generateUIDescription goes on to the model call.
PreprocessSettles(r, analysis) ==
    /\ r \in inflight
    /\ r.op = "describe"
    /\ r.stage = "preprocess"
    /\ inflight' = (inflight \ {r}) \cup
           {[r EXCEPT !.stage = "llm", !.visionAnalysis = analysis]}
    /\ UNCHANGED <<fmt, normVars, genVars, previewVars, dartVars, userPrompt,
                   images, nextId, selectedImageId, isPreviewOpen,
                   notifications, globalProgress, isGeneratingAll, uploads,
                   allRun,
                   backendVars, moreVars>>

\* The loop of handleImagesUploaded after the call r settled and imgs was
\* set: it ends, or it sets isGenerating for the next image and calls
\* generateUIDescription for it.
NextUpload(r, imgs) ==
    LET run == CHOOSE q \in uploads : Head(q) = r.image
        rest == Tail(run)
    IN  IF rest = <<>>
        THEN /\ images' = imgs
             /\ inflight' = inflight \ {r}
             /\ uploads' = uploads \ {run}
        ELSE /\ images' = SetFields(imgs, Head(rest), [isGenerating |-> TRUE])
             /\ inflight' = (inflight \ {r}) \cup {DescribeRequest(Head(rest))}
             /\ uploads' = (uploads \ {run}) \cup {rest}

\* generateUIDescription resolves: with the content of the model's message,
\* or with 'Failed to generate description' when the content is empty.
DescribeResolves(r, content) ==
    /\ r \in inflight
    /\ r.op = "describe"
    /\ r.stage = "llm"
    /\ LET description == IF content = ""
                          THEN "Failed to generate description"
                          ELSE content
       IN  NextUpload(r, SetFields(images, r.image,
                                   [description |-> description,
                                    isGenerating |-> FALSE]))
    /\ addNotification(<<"success">>)
    /\ UNCHANGED <<fmt, normVars, genVars, previewVars, dartVars, userPrompt,
                   nextId, selectedImageId, isPreviewOpen, globalProgress,
                   isGeneratingAll, allRun,
                   backendVars, moreVars>>

\* generateUIDescription rejects: fileToBase64 or the model call failed.
DescribeRejects(r) ==
    /\ r \in inflight
    /\ r.op = "describe"
    /\ NextUpload(r, SetFields(images, r.image, [isGenerating |-> FALSE]))
    /\ addNotification(<<"error">>)
    /\ UNCHANGED <<fmt, normVars, genVars, previewVars, dartVars, userPrompt,
                   nextId, selectedImageId, isPreviewOpen, globalProgress,
                   isGeneratingAll, allRun,
                   backendVars, moreVars>>

\* The description editor of the selected image, disabled while the image
\* is generating: handleDescriptionChange.
HandleDescriptionChange(d) ==
    /\ Find(images, selectedImageId) # 0
    /\ ~images[Find(images, selectedImageId)].isGenerating
    /\ images' = SetFields(images, selectedImageId, [description |-> d])
    /\ UNCHANGED <<fmt, normVars, genVars, previewVars, dartVars, userPrompt,
                   nextId, selectedImageId, isPreviewOpen, notifications,
                   globalProgress, isGeneratingAll, inflight, uploads,
                   allRun,
                   backendVars, moreVars>>

\* The code editor of the selected image: handleCodeChange.
HandleCodeChange(c) ==
    /\ Find(images, selectedImageId) # 0
    /\ images' = SetFields(images, selectedImageId, [code |-> c])
    /\ UNCHANGED <<fmt, normVars, genVars, previewVars, dartVars, userPrompt,
                   nextId, selectedImageId, isPreviewOpen, notifications,
                   globalProgress, isGeneratingAll, inflight, uploads,
                   allRun,
                   backendVars, moreVars>>

\* onImageSelect: setSelectedImageId with the id of a listed image.
SetSelectedImageId(id) ==
    /\ Find(images, id) # 0
    /\ id # selectedImageId
    /\ selectedImageId' = id
    /\ UNCHANGED <<fmt, normVars, genVars, previewVars, dartVars, userPrompt,
                   images, nextId, isPreviewOpen, notifications,
                   globalProgress, isGeneratingAll, inflight, uploads,
                   allRun,
                   backendVars, moreVars>>

\* removeImage without its two calls of setSelectedImageId.
RemoveImageKeepSelection(id) ==
    /\ Find(images, id) # 0
    /\ images' = SelectSeq(images, LAMBDA img : img.id # id)
    /\ addNotification(<<"info">>)
    /\ UNCHANGED <<fmt, normVars, genVars, previewVars, dartVars, userPrompt,
                   nextId, selectedImageId, isPreviewOpen, globalProgress,
                   isGeneratingAll, inflight, uploads, allRun,
                   backendVars, moreVars>>

\* removeImage.
RemoveImage(id) ==
    /\ Find(images, id) # 0
    /\ LET filtered == SelectSeq(images, LAMBDA img : img.id # id)
       IN  /\ images' = filtered
           /\ selectedImageId' =
                  IF selectedImageId = id /\ filtered # <<>>
                  THEN filtered[1].id
                  ELSE IF filtered = <<>> THEN 0 ELSE selectedImageId
    /\ addNotification(<<"info">>)
    /\ UNCHANGED <<fmt, normVars, genVars, previewVars, dartVars, userPrompt,
                   nextId, isPreviewOpen, globalProgress, isGeneratingAll,
                   inflight, uploads, allRun,
                   backendVars, moreVars>>

\* generateCodeForImage without its check of the description.
generateCodeForImageUnchecked(id) ==
    LET k == Find(images, id)
    IN  IF k = 0
        THEN /\ addNotification(<<"warning">>)
             /\ UNCHANGED <<images, inflight>>
        ELSE /\ ~images[k].isGenerating
             /\ images' = SetFields(images, id, [isGenerating |-> TRUE])
             /\ inflight' = inflight \cup
                    {CodeRequest("single", id, images[k].description,
                                 userPrompt)}
             /\ UNCHANGED notifications

\* generateCodeForImage(id).  The Generate button calls it for the selected
\* image and is disabled while that image has no description or is
\* generating; the function itself returns with a warning when the image
\* is missing or has no description.
generateCodeForImage(id) ==
    LET k == Find(images, id)
    IN  IF k = 0 \/ images[k].description = ""
        THEN /\ addNotification(<<"warning">>)
             /\ UNCHANGED <<images, inflight>>
        ELSE /\ id = selectedImageId
             /\ ~images[k].isGenerating
             /\ images' = SetFields(images, id, [isGenerating |-> TRUE])
             /\ inflight' = inflight \cup
                    {CodeRequest("single", id, images[k].description,
                                 userPrompt)}
             /\ UNCHANGED notifications

GenerateCodeForImage(id) ==
    /\ generateCodeForImage(id)
    /\ UNCHANGED <<fmt, normVars, genVars, previewVars, dartVars, userPrompt,
                   nextId, selectedImageId, isPreviewOpen, globalProgress,
                   isGeneratingAll, uploads, allRun,
                   backendVars, moreVars>>

\* What validateResponsiveDesign adds: one warning for each issue.
IssueWarnings(issues) == IF issues THEN <<"warning">> ELSE <<>>

\* SingleCodeResolves writing to the selected image.
SingleCodeResolvesSelected(r, c, issues) ==
    /\ r \in inflight
    /\ r.origin = "single"
    /\ images' = SetFields(images, selectedImageId,
                           [code |-> c, isGenerating |-> FALSE])
    /\ inflight' = inflight \ {r}
    /\ addNotification(IssueWarnings(issues) \o <<"success">>)
    /\ UNCHANGED <<fmt, normVars, genVars, previewVars, dartVars, userPrompt,
                   nextId, selectedImageId, isPreviewOpen, globalProgress,
                   isGeneratingAll, uploads, allRun,
                   backendVars, moreVars>>

\* generateReactCode of generateCodeForImage resolves with code c.
SingleCodeResolves(r, c, issues) ==
    /\ r \in inflight
    /\ r.origin = "single"
    /\ images' = SetFields(images, r.image,
                           [code |-> c, isGenerating |-> FALSE])
    /\ inflight' = inflight \ {r}
    /\ addNotification(IssueWarnings(issues) \o <<"success">>)
    /\ UNCHANGED <<fmt, normVars, genVars, previewVars, dartVars, userPrompt,
                   nextId, selectedImageId, isPreviewOpen, globalProgress,
                   isGeneratingAll, uploads, allRun,
                   backendVars, moreVars>>

\* generateReactCode of generateCodeForImage rejects.
SingleCodeRejects(r) ==
    /\ r \in inflight
    /\ r.origin = "single"
    /\ images' = SetFields(images, r.image, [isGenerating |-> FALSE])
    /\ inflight' = inflight \ {r}
    /\ addNotification(<<"error">>)
    /\ UNCHANGED <<fmt, normVars, genVars, previewVars, dartVars, userPrompt,
                   nextId, selectedImageId, isPreviewOpen, globalProgress,
                   isGeneratingAll, uploads, allRun,
                   backendVars, moreVars>>

\* generateAllCodes calling generateReactCode for every one of validImages
\* without awaiting.
GenerateAllCodesAtOnce ==
    /\ ~isGeneratingAll
    /\ LET validImages == ValidImages(images)
       IN  IF validImages = <<>>
           THEN /\ addNotification(<<"warning">>)
                /\ UNCHANGED <<images, globalProgress, isGeneratingAll,
                               inflight, allRun>>
           ELSE /\ isGeneratingAll' = TRUE
                /\ globalProgress' = 0
                /\ images' = [k \in DOMAIN images |->
                                 [images[k] EXCEPT !.code = "",
                                                   !.isGenerating = TRUE]]
                /\ inflight' = inflight \cup
                       {CodeRequest("all", validImages[k].id,
                                    validImages[k].description, userPrompt) :
                            k \in DOMAIN validImages}
                /\ allRun' = [valid |-> validImages, i |-> 1,
                              userPrompt |-> userPrompt]
                /\ UNCHANGED notifications
    /\ UNCHANGED <<fmt, normVars, genVars, previewVars, dartVars, userPrompt,
                   nextId, selectedImageId, isPreviewOpen, uploads,
                   backendVars, moreVars>>

\* generateAllCodes, whose buttons are disabled while isGeneratingAll: with
\* no described image it warns and returns; otherwise it clears every code,
\* sets isGenerating for every image and calls generateReactCode for
\* validImages[0].
GenerateAllCodes ==
    /\ ~isGeneratingAll
    /\ LET validImages == ValidImages(images)
       IN  IF validImages = <<>>
           THEN /\ addNotification(<<"warning">>)
                /\ UNCHANGED <<images, globalProgress, isGeneratingAll,
                               inflight, allRun>>
           ELSE /\ isGeneratingAll' = TRUE
                /\ globalProgress' = 0
                /\ images' = [k \in DOMAIN images |->
                                 [images[k] EXCEPT !.code = "",
                                                   !.isGenerating = TRUE]]
                /\ inflight' = inflight \cup
                       {CodeRequest("all", validImages[1].id,
                                    validImages[1].description, userPrompt)}
                /\ allRun' = [valid |-> validImages, i |-> 1,
                              userPrompt |-> userPrompt]
                /\ UNCHANGED notifications
    /\ UNCHANGED <<fmt, normVars, genVars, previewVars, dartVars, userPrompt,
                   nextId, selectedImageId, isPreviewOpen, uploads,
                   backendVars, moreVars>>

\* The loop of generateAllCodes after the call r settled and types were
\* notified: it calls generateReactCode for the next of validImages, or it
\* ends with setIsGeneratingAll(false) and its success notification.
NextOfAll(r, types) ==
    IF allRun.i < Len(allRun.valid)
    THEN /\ inflight' = (inflight \ {r}) \cup
                {CodeRequest("all", allRun.valid[allRun.i + 1].id,
                             allRun.valid[allRun.i + 1].description,
                             allRun.userPrompt)}
         /\ allRun' = [allRun EXCEPT !.i = allRun.i + 1]
         /\ addNotification(types)
         /\ UNCHANGED isGeneratingAll
    ELSE /\ inflight' = inflight \ {r}
         /\ allRun' = NoRun
         /\ isGeneratingAll' = FALSE
         /\ addNotification(types \o <<"success">>)

\* generateReactCode of generateAllCodes resolves with code c;
\* globalProgress is ((i + 1) / validImages.length) * 100.
AllCodeResolves(r, c, issues) ==
    /\ r \in inflight
    /\ r.origin = "all"
    /\ images' = SetFields(images, r.image,
                           [code |-> c, isGenerating |-> FALSE])
    /\ globalProgress' = (allRun.i * 100) \div Len(allRun.valid)
    /\ NextOfAll(r, IssueWarnings(issues))
    /\ UNCHANGED <<fmt, normVars, genVars, previewVars, dartVars, userPrompt,
                   nextId, selectedImageId, isPreviewOpen, uploads,
                   backendVars, moreVars>>

\* AllCodeRejects with the catch block around the loop: the loop ends.
AllCodeRejectsEndsLoop(r) ==
    /\ r \in inflight
    /\ r.origin = "all"
    /\ images' = SetFields(images, r.image, [isGenerating |-> FALSE])
    /\ inflight' = inflight \ {r}
    /\ allRun' = NoRun
    /\ isGeneratingAll' = FALSE
    /\ addNotification(<<"error">>)
    /\ UNCHANGED <<fmt, normVars, genVars, previewVars, dartVars, userPrompt,
                   nextId, selectedImageId, isPreviewOpen, globalProgress,
                   uploads, backendVars, moreVars>>

\* generateReactCode of generateAllCodes rejects: the catch block inside
\* the loop.
AllCodeRejects(r) ==
    /\ r \in inflight
    /\ r.origin = "all"
    /\ images' = SetFields(images, r.image, [isGenerating |-> FALSE])
    /\ NextOfAll(r, <<"error">>)
    /\ UNCHANGED <<fmt, normVars, genVars, previewVars, dartVars, userPrompt,
                   nextId, selectedImageId, isPreviewOpen, globalProgress,
                   uploads, backendVars, moreVars>>

\* handlePreviewClick, whose button is disabled while isGeneratingAll.
HandlePreviewClick ==
    /\ ~isGeneratingAll
    /\ LET k == Find(images, selectedImageId)
       IN  IF k = 0 \/ images[k].code = ""
           THEN addNotification(<<"warning">>) /\ UNCHANGED isPreviewOpen
           ELSE IF images[k].code = "invalid"
           THEN addNotification(<<"error">>) /\ UNCHANGED isPreviewOpen
           ELSE isPreviewOpen' = TRUE /\ UNCHANGED notifications
    /\ UNCHANGED <<fmt, normVars, genVars, previewVars, dartVars, userPrompt,
                   images, nextId, selectedImageId, globalProgress,
                   isGeneratingAll, inflight, uploads, allRun,
                   backendVars, moreVars>>

\* onClose of LivePreview.
ClosePreview ==
    /\ isPreviewOpen
    /\ isPreviewOpen' = FALSE
    /\ UNCHANGED <<fmt, normVars, genVars, previewVars, dartVars, userPrompt,
                   images, nextId, selectedImageId, notifications,
                   globalProgress, isGeneratingAll, inflight, uploads,
                   allRun,
                   backendVars, moreVars>>

\* The timer of the oldest notification fires.
ExpireNotification ==
    /\ notifications # <<>>
    /\ notifications' = Tail(notifications)
    /\ UNCHANGED <<fmt, normVars, genVars, previewVars, dartVars, userPrompt,
                   images, nextId, selectedImageId, isPreviewOpen,
                   globalProgress, isGeneratingAll, inflight, uploads,
                   allRun,
                   backendVars, moreVars>>

InitApp ==
    /\ fmt = "react-mui"
    /\ raw = <<>>
    /\ NormIdle /\ GenIdle /\ PreviewIdle /\ DartIdle /\ RestIdle

NextApp ==
    \/ \E n \in 1..MaxImages : HandleImagesUploaded(n)
    \/ \E r \in inflight, a \in {"full", "empty"} : PreprocessSettles(r, a)
    \/ \E r \in inflight, content \in Contents : DescribeResolves(r, content)
    \/ \E r \in inflight : DescribeRejects(r)
    \/ \E d \in Descriptions : HandleDescriptionChange(d)
    \/ \E c \in {"", "valid"} : HandleCodeChange(c)
    \/ \E id \in ImageIds : SetSelectedImageId(id)
    \/ \E id \in ImageIds : RemoveImage(id)
    \/ \E id \in ImageIds : GenerateCodeForImage(id)
    \/ \E r \in inflight, c \in GeneratedCodes, issues \in BOOLEAN :
           SingleCodeResolves(r, c, issues)
    \/ \E r \in inflight : SingleCodeRejects(r)
    \/ GenerateAllCodes
    \/ \E r \in inflight, c \in GeneratedCodes, issues \in BOOLEAN :
           AllCodeResolves(r, c, issues)
    \/ \E r \in inflight : AllCodeRejects(r)
    \/ HandlePreviewClick
    \/ ClosePreview
    \/ ExpireNotification

SpecApp == InitApp /\ [][NextApp]_vars

---------------------------------------------------------------------------
\* The backend route POST /generate-code (src/backend/routes/gemini.js),
\* and its front end (src/frontend/src: App.jsx, CodeEditor.jsx,
\* PromptBox.jsx, services/geminiService.js).  The body of a request is its
\* uiDescription and its userPrompt, the empty string standing for an
\* absent field too, and who sent it: the front end, or another client.

Bodies(from) ==
    [uiDescription : {"", "text"}, userPrompt : {"", "prompt"}, from : {from}]

\* The requests of sender from that are posted, handled or answered.
Outstanding(from) ==
    {b \in posted \cup routeCalls : b.from = from}
        \cup {rep.body : rep \in {x \in replies : x.body.from = from}}

\* The effect of CodeEditor after a render with the values isGen, ui and
\* up: generateCode clears the error and geminiService.generateReactCode
\* posts the request.
CodeEditorEffect(isGen, ui, up) ==
    IF isGen /\ ui # "" /\ up # ""
    THEN /\ editorError' = ""
         /\ posted' = posted \cup {[uiDescription |-> ui, userPrompt |-> up,
                                    from |-> "frontend"]}
    ELSE UNCHANGED <<editorError, posted>>

\* UIDescriptionEditor onChange: setUiDescription.
SetUiDescription(d) ==
    /\ d # uiDescription
    /\ uiDescription' = d
    /\ CodeEditorEffect(isGenerating, d, userPrompt)
    /\ UNCHANGED <<fmt, normVars, genVars, previewVars, dartVars, appVars,
                   moreVars, userPrompt, isGenerating, generatedCode, routeCalls,
                   replies>>

\* PromptBox onChange: setUserPrompt.
SetUserPrompt(p) ==
    /\ p # userPrompt
    /\ userPrompt' = p
    /\ CodeEditorEffect(isGenerating, uiDescription, p)
    /\ UNCHANGED <<fmt, normVars, genVars, previewVars, dartVars, appVars,
                   moreVars, uiDescription, isGenerating, generatedCode, routeCalls,
                   replies>>

\* The Generate button of PromptBox, disabled while the prompt is empty:
\* setIsGenerating(true).
OnGenerate ==
    /\ userPrompt # ""
    /\ ~isGenerating
    /\ isGenerating' = TRUE
    /\ CodeEditorEffect(TRUE, uiDescription, userPrompt)
    /\ UNCHANGED <<fmt, normVars, genVars, previewVars, dartVars, appVars,
                   moreVars, userPrompt, uiDescription, generatedCode, routeCalls,
                   replies>>

\* Another client posts a request, one at a time.
ClientPosts(b) ==
    /\ Outstanding("client") = {}
    /\ posted' = posted \cup {b}
    /\ UNCHANGED <<fmt, normVars, genVars, previewVars, dartVars, appVars,
                   moreVars, userPrompt, uiDescription, isGenerating, generatedCode,
                   editorError, routeCalls, replies>>

\* The client reads its response.
ClientReads(rep) ==
    /\ rep \in replies
    /\ rep.body.from = "client"
    /\ replies' = replies \ {rep}
    /\ UNCHANGED <<fmt, normVars, genVars, previewVars, dartVars, appVars,
                   moreVars, userPrompt, uiDescription, isGenerating, generatedCode,
                   editorError, posted, routeCalls>>

\* router.post('/generate-code') up to its await: 400 when uiDescription
\* or userPrompt is falsy, otherwise the call of
\* geminiService.generateReactCode.
PostGenerateCode(b) ==
    /\ b \in posted
    /\ posted' = posted \ {b}
    /\ IF b.uiDescription = "" \/ b.userPrompt = ""
       THEN /\ replies' = replies \cup {[body |-> b, status |-> 400]}
            /\ UNCHANGED routeCalls
       ELSE /\ routeCalls' = routeCalls \cup {b}
            /\ UNCHANGED replies
    /\ UNCHANGED <<fmt, normVars, genVars, previewVars, dartVars, appVars,
                   moreVars, userPrompt, uiDescription, isGenerating, generatedCode,
                   editorError>>

\* geminiService.generateReactCode settles in the route: 200 with the
\* code, or 500 from the catch block.
GeminiSettles(b, status) ==
    /\ b \in routeCalls
    /\ routeCalls' = routeCalls \ {b}
    /\ replies' = replies \cup {[body |-> b, status |-> status]}
    /\ UNCHANGED <<fmt, normVars, genVars, previewVars, dartVars, appVars,
                   moreVars, userPrompt, uiDescription, isGenerating, generatedCode,
                   editorError, posted>>

\* The response reaches generateCode of CodeEditor: the code is set when
\* the status is 200 and validateCode accepts it, the error otherwise;
\* onGenerationComplete sets isGenerating to false.
ResponseArrives(rep, valid) ==
    /\ rep \in replies
    /\ rep.body.from = "frontend"
    /\ replies' = replies \ {rep}
    /\ IF rep.status = 200 /\ valid
       THEN generatedCode' = "code" /\ UNCHANGED editorError
       ELSE editorError' = "Failed to generate code" /\ UNCHANGED generatedCode
    /\ isGenerating' = FALSE
    /\ UNCHANGED <<fmt, normVars, genVars, previewVars, dartVars, appVars,
                   moreVars, userPrompt, uiDescription, posted, routeCalls>>

InitBackend ==
    /\ fmt = "react-mui"
    /\ raw = <<>>
    /\ NormIdle /\ GenIdle /\ PreviewIdle /\ DartIdle /\ RestIdle

NextBackend ==
    \/ \E d \in {"", "text"} : SetUiDescription(d)
    \/ \E p \in {"", "prompt"} : SetUserPrompt(p)
    \/ OnGenerate
    \/ \E b \in Bodies("client") : ClientPosts(b)
    \/ \E rep \in replies : ClientReads(rep)
    \/ \E b \in posted : PostGenerateCode(b)
    \/ \E b \in routeCalls, status \in {200, 500} : GeminiSettles(b, status)
    \/ \E rep \in replies, valid \in BOOLEAN : ResponseArrives(rep, valid)

SpecBackend == InitBackend /\ [][NextBackend]_vars

---------------------------------------------------------------------------
\* Properties of the react-native and flutter entry points.

\* Import statements of React from 'react'.
ReactImports == {t \in ImportStatement : modulePath(t) = "react"}
\* Import statements from 'react-native'.
ReactNativeImports == {t \in ImportStatement : modulePath(t) = "react-native"}

---------------------------------------------------------------------------
\* Properties of generateReactCode and of the preview build.

\* C17: generateReactCode called with a codeFormat that is none of the
\* three never calls the model and never returns code.
C17_UnknownFormatFailsFast ==
    fmt \notin Formats => (llmCalls = 0 /\ gpc # "returned")


\* The build of the preview fails in this step: the define request of
\* createCodeSandboxUrl fails, or encodeURIComponent throws in
\* createDartPadUrl.
BuildFails ==
    /\ ppc = "awaiting"
    /\ ppc' = "done"
    /\ \/ fmt = "react-mui" /\ response' \in FetchFailures
       \/ fmt = "flutter" /\ DartPadThrows(prepareCodeForPreview(out, fmt))

\* C16: a failed preview build (a define request that rejects or resolves
\* without ok or without a sandbox id, or an exception while the URL is
\* built) is caught: the step that fails sets the error of the preview,
\* sets isLoading to FALSE, sets no preview URL, and changes neither the
\* code the preview was given nor any generated code.
C16_FailedBuildIsolated ==
    [][BuildFails =>
          /\ error' # NoError
          /\ isLoading' = FALSE
          /\ previewUrl' = NoUrl
          /\ UNCHANGED <<fmt, normVars, genVars>>]_vars

\* A define request failed for a code that is not blank.
C16_Witness ==
    /\ fmt = "react-mui"
    /\ Trim(out) # <<>>
    /\ response \in FetchFailures
    /\ error = "Failed to create CodeSandbox preview"
    /\ ~isLoading

---------------------------------------------------------------------------
\* Properties of the App: the loops of handleImagesUploaded and
\* generateAllCodes, and the calls they have pending.

\* The pending calls of generateReactCode made by generateAllCodes.
RunRequests == {r \in inflight : r.origin = "all"}

\* The call generateAllCodes awaits: that for validImages[i].
AwaitedOfRun ==
    CodeRequest("all", allRun.valid[allRun.i].id,
                allRun.valid[allRun.i].description, allRun.userPrompt)

\* C13: while generateAllCodes runs, exactly one of its calls is pending,
\* the one for validImages[i]; i only grows, by one at a time; no call of
\* it is pending when it does not run; and globalProgress never decreases
\* from the step after the start of the run to its end.
C13_SequentialMonotonic ==
    /\ [](IF isGeneratingAll THEN RunRequests = {AwaitedOfRun}
          ELSE RunRequests = {})
    /\ [][isGeneratingAll =>
              /\ globalProgress' >= globalProgress
              /\ isGeneratingAll' =>
                     /\ allRun'.valid = allRun.valid
                     /\ allRun'.i \in {allRun.i, allRun.i + 1}]_vars

\* The second of two described images is awaited after the first settled,
\* and globalProgress is 50.
C13_Witness ==
    /\ isGeneratingAll
    /\ Len(allRun.valid) = 2
    /\ allRun.i = 2
    /\ globalProgress = 50
    /\ Cardinality(RunRequests) = 1

\* C14: when a call of generateAllCodes rejects, its image, if still
\* listed, has isGenerating = FALSE after the step, and the call for the
\* next of validImages is pending after the step when there is one; the
\* loop ends only after the call for the last of validImages settled.
C14_FailureIsolated ==
    [][/\ \A r \in inflight : AllCodeRejects(r) =>
              /\ Find(images', r.image) # 0 =>
                     ~images'[Find(images', r.image)].isGenerating
              /\ allRun.i < Len(allRun.valid) =>
                     CodeRequest("all", allRun.valid[allRun.i + 1].id,
                                 allRun.valid[allRun.i + 1].description,
                                 allRun.userPrompt) \in inflight'
       /\ (isGeneratingAll /\ ~isGeneratingAll') =>
              allRun.i = Len(allRun.valid)]_vars

\* The call for the first of two described images rejected (globalProgress
\* is still 0) and the call for the second is pending.
C14_Witness ==
    /\ isGeneratingAll
    /\ Len(allRun.valid) = 2
    /\ allRun.i = 2
    /\ globalProgress = 0
    /\ notifications = <<"error">>
    /\ AwaitedOfRun \in inflight
    /\ Find(images, allRun.valid[1].id) # 0
    /\ ~images[Find(images, allRun.valid[1].id)].isGenerating

\* The description and the code of every image of imgs but that with id
\* are the same in imgs2.
OthersKept(imgs, imgs2, id) ==
    \A k \in DOMAIN imgs :
        (imgs[k].id # id /\ Find(imgs2, imgs[k].id) # 0) =>
            /\ imgs2[Find(imgs2, imgs[k].id)].description =
                   imgs[k].description
            /\ imgs2[Find(imgs2, imgs[k].id)].code = imgs[k].code

\* C15: a step that closes the preview or changes selectedImageId leaves
\* every pending call pending; the step in which a pending call for image
\* X settles changes the description and the code of no other image; and
\* when a description call or a single code call resolves, its result is
\* the description, or the code, of image X after the step if X is listed.
C15_ResultsById ==
    [][/\ (isPreviewOpen' # isPreviewOpen
           \/ selectedImageId' # selectedImageId) =>
              inflight \subseteq inflight'
       /\ \A r \in inflight \ inflight' :
              r.origin # "all" => OthersKept(images, images', r.image)
       /\ \A r \in inflight \ inflight' :
              /\ \A c \in GeneratedCodes, issues \in BOOLEAN :
                     (r.origin = "single" /\ Find(images', r.image) # 0
                      /\ SingleCodeResolves(r, c, issues)) =>
                         images'[Find(images', r.image)].code = c
              /\ \A content \in Contents :
                     (r.op = "describe" /\ Find(images', r.image) # 0
                      /\ DescribeResolves(r, content)) =>
                         images'[Find(images', r.image)].description =
                             content]_vars

\* A single code call is pending for a listed image that is not the
\* selected one.
C15_Witness ==
    \E r \in inflight :
        /\ r.origin = "single"
        /\ r.image # selectedImageId
        /\ Find(images, r.image) # 0

\* C18: when a call of generateUIDescription whose image preprocessing
\* failed settles, a warning or an error notification is shown after the
\* step.
C18_FailuresNotified ==
    [][\A r \in inflight :
           (r.visionAnalysis = "empty" /\ r \notin inflight') =>
               \E k \in DOMAIN notifications' :
                   notifications'[k] \in {"warning", "error"}]_vars

\* C20: no call of generateReactCode is pending with an empty description.
C20_NoEmptyDescription ==
    \A r \in inflight : r.op = "code" => r.description # ""

\* generateAllCodes awaits a call while a listed image has no description.
C20_Witness ==
    /\ isGeneratingAll
    /\ RunRequests # {}
    /\ \E k \in DOMAIN images : images[k].description = ""

---------------------------------------------------------------------------
\* Properties of the code-generation entry points.

\* C19: a request with a uiDescription and an empty userPrompt is not
\* answered 400 by the route, and the front end, when isGenerating is set
\* with a uiDescription and an empty userPrompt, has a request under way.
C19_EmptyPromptAccepted ==
    /\ \A rep \in replies :
           (rep.body.uiDescription # "" /\ rep.body.userPrompt = "") =>
               rep.status # 400
    /\ (isGenerating /\ uiDescription # "" /\ userPrompt = "") =>
           Outstanding("frontend") # {}
---------------------------------------------------------------------------
\* The backend/React-Live pipeline of generated code: the stripping at the
\* end of GeminiService.generateReactCode
\* (src/backend/services/geminiService.js), formatCode and validateCode of
\* generateCode (src/frontend/src/components/CodeEditor.jsx,
\* utils/codeGenerator.js) and cleanCode of handleCodeGenerated
\* (src/frontend/src/App.jsx).  raw is the text of the model's response,
\* out the code the route answers with, out2 the code handed to
\* setGeneratedCode.

\* code.replace(/^```jsx?\n/, '')
StripJsxOpening(s) ==
    IF IsFenceAt(s, 1) /\ Len(s) >= 5 /\ s[4] \in {"JSX", "JS"} /\ s[5] = "NL"
    THEN SubSeq(s, 6, Len(s))
    ELSE s

\* code.replace(/\n```$/, '')
StripClosingLine(s) ==
    IF Len(s) >= 4 /\ s[Len(s) - 3] = "NL" /\ IsFenceAt(s, Len(s) - 2)
    THEN SubSeq(s, 1, Len(s) - 4)
    ELSE s

\* What GeminiService.generateReactCode returns for the response text.
geminiStripMarkdown(text) == Trim(StripClosingLine(StripJsxOpening(text)))

\* formatCode of utils/codeGenerator.js.
formatCode(c) == Trim(c)

\* validateCode of utils/codeGenerator.js: code.includes('export default').
validateExportDefault(c) == Has(c, ExportDefault)

\* code.replace(/^```(?:javascript|jsx)?\n/, '')
StripTaggedOpening(s) ==
    IF IsFenceAt(s, 1) /\ Len(s) >= 4 /\ s[4] = "NL"
    THEN SubSeq(s, 5, Len(s))
    ELSE IF /\ IsFenceAt(s, 1) /\ Len(s) >= 5
            /\ s[4] \in {"JAVASCRIPT", "JSX"} /\ s[5] = "NL"
         THEN SubSeq(s, 6, Len(s))
         ELSE s

\* The characters that . does not match, as lexemes.
LineTerminators == {"NL", "CR"}

\* code.replace(/^```.*\n/, ''): the first line goes when it starts with a
\* fence and its line terminator is \n.
StripOpeningLine(s) ==
    LET p == FirstIn(SubSeq(s, 4, Len(s)), LineTerminators) + 3
    IN  IF IsFenceAt(s, 1) /\ p > 3 /\ s[p] = "NL"
        THEN SubSeq(s, p + 1, Len(s))
        ELSE s

\* code.replace(/```$/, '')
StripClosingFence(s) ==
    IF Len(s) >= 3 /\ IsFenceAt(s, Len(s) - 2)
    THEN SubSeq(s, 1, Len(s) - 3)
    ELSE s

\* cleanCode of src/frontend/src/App.jsx.
cleanCode(c) ==
    IF c = <<>> THEN <<>>
    ELSE Trim(StripClosingFence(StripOpeningLine(StripTaggedOpening(c))))

\* The line ends of a model output.
LineEnds == {<<"NL">>, <<"CR", "NL">>}

\* The code of a model output whose lines end with eol: with and without an
\* export default statement.
CodeBodies(eol) ==
    {<<"EXP_FUNC_GC">>,
     <<"DEF_CONST_GC">> \o eol \o <<"EXP_GC">>,
     <<"DEF_CONST_GC">>}

\* What follows the opening fence on its line.
OpeningTags == {<<>>, <<"JSX">>, <<"JS">>, <<"JAVASCRIPT">>, <<"TSX">>}

\* Whitespace before the opening fence and after the closing fence.
LeadingWhitespace == {<<>>, <<"NL">>}
TrailingWhitespace ==
    {<<>>, <<"NL">>, <<"SP">>, <<"SP", "NL">>, <<"CR", "NL">>}

\* The code bodies, whatever their line ends.
AllCodeBodies == UNION {CodeBodies(e) : e \in LineEnds}

\* Model outputs wrapped in a fence.
FencedOutputs ==
    {Expand(t[1] \o <<"FENCE">> \o t[2] \o t[3] \o t[4] \o t[3]
            \o <<"FENCE">> \o t[5]) :
        t \in {u \in LeadingWhitespace \X OpeningTags \X LineEnds
                     \X AllCodeBodies \X TrailingWhitespace :
                  u[4] \in CodeBodies(u[3])}}

\* Model outputs without a fence.
PlainOutputs ==
    {lead \o body \o trail :
        lead \in LeadingWhitespace,
        body \in AllCodeBodies,
        trail \in TrailingWhitespace}

\* The route answers with the stripped code.
GeminiReturns ==
    /\ npc = "raw"
    /\ out' = geminiStripMarkdown(raw)
    /\ npc' = "once"
    /\ UNCHANGED <<fmt, raw, out2, genVars, previewVars, dartVars, restVars>>

\* generateCode of CodeEditor receives the code: it is formatted and
\* validated, and handleCodeGenerated stores what cleanCode makes of it, or
\* the error is set; onGenerationComplete clears isGenerating.
CodeGenerated ==
    /\ npc = "once"
    /\ IF validateExportDefault(formatCode(out))
       THEN /\ out2' = cleanCode(formatCode(out))
            /\ generatedCode' = IF out2' = <<>> THEN "" ELSE "code"
            /\ npc' = "twice"
            /\ UNCHANGED editorError
       ELSE /\ editorError' = "Failed to generate code"
            /\ npc' = "rejected"
            /\ UNCHANGED <<out2, generatedCode>>
    /\ isGenerating' = FALSE
    /\ UNCHANGED <<fmt, raw, out, genVars, previewVars, dartVars, userPrompt,
                   appVars, moreVars, uiDescription, posted, routeCalls,
                   replies>>

InitClean ==
    /\ fmt = "react-mui"
    /\ raw \in FencedOutputs \cup PlainOutputs
    /\ NormIdle /\ GenIdle /\ PreviewIdle /\ DartIdle /\ RestIdle

NextClean == GeminiReturns \/ CodeGenerated

SpecClean == InitClean /\ [][NextClean]_vars

---------------------------------------------------------------------------
\* POST /api/publish (src/backend/routes/publish.js) and
\* ProjectManager.publishProject (src/backend/services/projectManager.js).
\* Every await of an execution is a step; other executions run in between.

\* Most publish requests in one behaviour.
MaxPublishes == 3

\* The reactCode of a request body; the empty string stands for an absent
\* field too.
ReactCodes == {"", "a", "b"}

\* componentWithMetadata of saveGeneratedComponent, as its lines: the device
\* type, the metadata and the code; its "Generated at" line is left out, so
\* that two contents are equal when their code is.
componentWithMetadata(reactCode) ==
    <<"// Device Type: desktop", "// Metadata: {}", reactCode>>

\* The number of the next publish request.
NextPublish == Cardinality(publishes) + Len(published) + 1

\* The execution p goes on to stage s.
Advance(p, s) == publishes' = (publishes \ {p}) \cup {[p EXCEPT !.stage = s]}

\* The execution p ends with a response of the given status.
Respond(p, status) ==
    /\ publishes' = publishes \ {p}
    /\ published' = Append(published, [id |-> p.id, status |-> status])

\* router.post('/'): 400 without reactCode; otherwise publishProject is
\* called and awaits fs.pathExists(activeProjectPath).
PostPublish(c) ==
    /\ NextPublish <= MaxPublishes
    /\ IF c = ""
       THEN /\ published' =
                   Append(published, [id |-> NextPublish, status |-> 400])
            /\ UNCHANGED publishes
       ELSE /\ publishes' = publishes \cup
                   {[id |-> NextPublish, reactCode |-> c,
                     stage |-> "pathExists", versionNumber |-> 0]}
            /\ UNCHANGED published
    /\ UNCHANGED <<fmt, normVars, genVars, previewVars, dartVars, userPrompt,
                   appVars, backendVars, projectExists, versionFiles,
                   componentFile, backupVars, uploadVars, overlapVars>>

\* fs.pathExists resolves: createProjectStructure when the project is
\* missing, saveGeneratedComponent otherwise.
PathExistsResolves(p) ==
    /\ p \in publishes
    /\ p.stage = "pathExists"
    /\ Advance(p, IF projectExists THEN "ensureDir" ELSE "create")
    /\ UNCHANGED <<fmt, normVars, genVars, previewVars, dartVars, userPrompt,
                   appVars, backendVars, projectExists, versionFiles,
                   componentFile, published, backupVars, uploadVars,
                   overlapVars>>

\* createProjectStructure: the folders and the template files are written;
\* GeneratedComponent.jsx, whose content is '', is not.
CreateProjectStructure(p) ==
    /\ p \in publishes
    /\ p.stage = "create"
    /\ projectExists' = TRUE
    /\ Advance(p, "install")
    /\ UNCHANGED <<fmt, normVars, genVars, previewVars, dartVars, userPrompt,
                   appVars, backendVars, versionFiles, componentFile,
                   published, backupVars, uploadVars, overlapVars>>

\* installDependencies: npm install succeeds, or fails and publishProject
\* throws (500).
InstallDependencies(p, ok) ==
    /\ p \in publishes
    /\ p.stage = "install"
    /\ IF ok THEN Advance(p, "ensureDir") /\ UNCHANGED published
       ELSE Respond(p, 500)
    /\ UNCHANGED <<fmt, normVars, genVars, previewVars, dartVars, userPrompt,
                   appVars, backendVars, projectExists, versionFiles,
                   componentFile, backupVars, uploadVars, overlapVars>>

\* saveGeneratedComponent: fs.ensureDir(versionsPath) resolves and
\* getNextVersionNumber awaits fs.readdir.
EnsureDirResolves(p) ==
    /\ p \in publishes
    /\ p.stage = "ensureDir"
    /\ Advance(p, "readdir")
    /\ UNCHANGED <<fmt, normVars, genVars, previewVars, dartVars, userPrompt,
                   appVars, backendVars, projectExists, versionFiles,
                   componentFile, published, backupVars, uploadVars,
                   overlapVars>>

\* getNextVersionNumber: versionFiles.length + 1.
getNextVersionNumber(names) == Cardinality(names) + 1

\* fs.readdir resolves; the version file is about to be written.
ReaddirResolves(p) ==
    /\ p \in publishes
    /\ p.stage = "readdir"
    /\ publishes' = (publishes \ {p}) \cup
           {[p EXCEPT !.stage = "writeVersion",
                      !.versionNumber =
                          getNextVersionNumber(DOMAIN versionFiles)]}
    /\ UNCHANGED <<fmt, normVars, genVars, previewVars, dartVars, userPrompt,
                   appVars, backendVars, projectExists, versionFiles,
                   componentFile, published, backupVars, uploadVars,
                   overlapVars>>

\* fs.writeFile(versionPath, componentWithMetadata) resolves.
WriteVersionFile(p) ==
    /\ p \in publishes
    /\ p.stage = "writeVersion"
    /\ versionFiles' =
           (p.versionNumber :> componentWithMetadata(p.reactCode))
               @@ versionFiles
    /\ Advance(p, "writeComponent")
    /\ UNCHANGED <<fmt, normVars, genVars, previewVars, dartVars, userPrompt,
                   appVars, backendVars, projectExists, componentFile,
                   published, backupVars, uploadVars, overlapVars>>

\* fs.writeFile(componentPath, componentWithMetadata) resolves and the
\* route answers with the result.
WriteComponentFile(p) ==
    /\ p \in publishes
    /\ p.stage = "writeComponent"
    /\ componentFile' = componentWithMetadata(p.reactCode)
    /\ Respond(p, 200)
    /\ UNCHANGED <<fmt, normVars, genVars, previewVars, dartVars, userPrompt,
                   appVars, backendVars, projectExists, versionFiles,
                   backupVars, uploadVars, overlapVars>>

InitPublish ==
    /\ fmt = "react-mui"
    /\ raw = <<>>
    /\ NormIdle /\ GenIdle /\ PreviewIdle /\ DartIdle /\ RestIdle

NextPublishStep ==
    \/ \E c \in ReactCodes : PostPublish(c)
    \/ \E p \in publishes : PathExistsResolves(p)
    \/ \E p \in publishes : CreateProjectStructure(p)
    \/ \E p \in publishes, ok \in BOOLEAN : InstallDependencies(p, ok)
    \/ \E p \in publishes : EnsureDirResolves(p)
    \/ \E p \in publishes : ReaddirResolves(p)
    \/ \E p \in publishes : WriteVersionFile(p)
    \/ \E p \in publishes : WriteComponentFile(p)

SpecPublish == InitPublish /\ [][NextPublishStep]_vars

---------------------------------------------------------------------------
\* router.post('/publish') with backups (src/unnamed/part_001) and the
\* response that PublishButton shows (src/unnamed/part_003).  Every await
\* of an execution is a step; other executions run in between.

\* Most /publish requests in one behaviour.
MaxBackupPublishes == 3

\* The code of a request body; the empty string stands for an absent or
\* blank field too.
PublishedCodes == {"", "a", "b"}

\* cleanCodeForReact, as the lines of its result: the import block, the
\* code and the export statement it appends.
cleanCodeForReact(c) ==
    <<"import React", c, "export default GeneratedComponent;">>

\* getNextVersion: the greatest N with a folder vN, 0 when there is none.
getNextVersion(dirs) ==
    IF dirs = {} THEN 0 ELSE CHOOSE n \in dirs : \A m \in dirs : m <= n

\* The number of the next /publish request.
NextBackupRun == Cardinality(backupRuns) + Len(reported) + 1

\* The execution r goes on as the record s.
GoOn(r, s) == backupRuns' = (backupRuns \ {r}) \cup {s}

\* router.post('/publish'): 400 when the code does not pass validation;
\* otherwise the code is cleaned and backupCurrentVersion awaits
\* fs.access(currentAppPath).
PostBackupPublish(c) ==
    /\ NextBackupRun <= MaxBackupPublishes
    /\ IF c = ""
       THEN /\ reported' = Append(reported, [status |-> 400, version |-> 0])
            /\ UNCHANGED backupRuns
       ELSE /\ backupRuns' = backupRuns \cup
                   {[id |-> NextBackupRun, cleanedCode |-> cleanCodeForReact(c),
                     stage |-> "access", version |-> 0, replaced |-> NoFile]}
            /\ UNCHANGED reported
    /\ UNCHANGED <<fmt, normVars, genVars, previewVars, dartVars, userPrompt,
                   appVars, backendVars, publishVars, appJs, backupDirs,
                   uploadVars, overlapVars>>

\* backupCurrentVersion: fs.access settles.  Without App.js the function
\* returns 0 and createReactProject starts; with it getNextVersion awaits
\* fs.readdir.
AccessSettles(r) ==
    /\ r \in backupRuns
    /\ r.stage = "access"
    /\ GoOn(r, [r EXCEPT !.stage =
                   IF appJs = NoFile THEN "writeApp" ELSE "readdir"])
    /\ UNCHANGED <<fmt, normVars, genVars, previewVars, dartVars, userPrompt,
                   appVars, backendVars, publishVars, appJs, backupDirs,
                   reported, uploadVars, overlapVars>>

\* getNextVersion resolves: version = getNextVersion() + 1, and fs.mkdir
\* is awaited.
ReaddirSettles(r) ==
    /\ r \in backupRuns
    /\ r.stage = "readdir"
    /\ GoOn(r, [r EXCEPT !.stage = "mkdir",
                         !.version = getNextVersion(DOMAIN backupDirs) + 1])
    /\ UNCHANGED <<fmt, normVars, genVars, previewVars, dartVars, userPrompt,
                   appVars, backendVars, publishVars, appJs, backupDirs,
                   reported, uploadVars, overlapVars>>

\* fs.mkdir(versionDir, { recursive: true }) resolves: the folder exists
\* afterwards, and an existing folder keeps what it holds.
MkdirResolves(r) ==
    /\ r \in backupRuns
    /\ r.stage = "mkdir"
    /\ backupDirs' = IF r.version \in DOMAIN backupDirs THEN backupDirs
                     ELSE (r.version :> NoFile) @@ backupDirs
    /\ GoOn(r, [r EXCEPT !.stage = "copy"])
    /\ UNCHANGED <<fmt, normVars, genVars, previewVars, dartVars, userPrompt,
                   appVars, backendVars, publishVars, appJs, reported,
                   uploadVars, overlapVars>>

\* fs.copyFile(currentAppPath, versionAppPath) resolves: vN/App.jsx holds
\* what App.js holds now; backupCurrentVersion returns the version and
\* createReactProject starts.
CopyResolves(r) ==
    /\ r \in backupRuns
    /\ r.stage = "copy"
    /\ backupDirs' = [backupDirs EXCEPT ![r.version] = appJs]
    /\ GoOn(r, [r EXCEPT !.stage = "writeApp"])
    /\ UNCHANGED <<fmt, normVars, genVars, previewVars, dartVars, userPrompt,
                   appVars, backendVars, publishVars, appJs, reported,
                   uploadVars, overlapVars>>

\* createReactProject: fs.writeFile of src/App.js resolves; the run keeps
\* what it replaced.
WriteAppJs(r) ==
    /\ r \in backupRuns
    /\ r.stage = "writeApp"
    /\ appJs' = r.cleanedCode
    /\ GoOn(r, [r EXCEPT !.stage = "install", !.replaced = appJs])
    /\ UNCHANGED <<fmt, normVars, genVars, previewVars, dartVars, userPrompt,
                   appVars, backendVars, publishVars, backupDirs, reported,
                   uploadVars, overlapVars>>

\* The rest of the route: the dependencies are there or npm install
\* succeeds, and the route answers with version: backedUpVersion; or
\* npm install fails and the route answers 500.
RouteAnswers(r, ok) ==
    /\ r \in backupRuns
    /\ r.stage = "install"
    /\ backupRuns' = backupRuns \ {r}
    /\ reported' = Append(reported,
           IF ok THEN [status |-> 200, version |-> r.version]
           ELSE [status |-> 500, version |-> 0])
    /\ UNCHANGED <<fmt, normVars, genVars, previewVars, dartVars, userPrompt,
                   appVars, backendVars, publishVars, appJs, backupDirs,
                   uploadVars, overlapVars>>

InitBackup ==
    /\ fmt = "react-mui"
    /\ raw = <<>>
    /\ NormIdle /\ GenIdle /\ PreviewIdle /\ DartIdle /\ RestIdle

NextBackup ==
    \/ \E c \in PublishedCodes : PostBackupPublish(c)
    \/ \E r \in backupRuns : AccessSettles(r)
    \/ \E r \in backupRuns : ReaddirSettles(r)
    \/ \E r \in backupRuns : MkdirResolves(r)
    \/ \E r \in backupRuns : CopyResolves(r)
    \/ \E r \in backupRuns : WriteAppJs(r)
    \/ \E r \in backupRuns, ok \in BOOLEAN : RouteAnswers(r, ok)

SpecBackup == InitBackup /\ [][NextBackup]_vars

---------------------------------------------------------------------------
\* ImageUpload of the frontend (src/frontend/src/components/ImageUpload.jsx):
\* handleFiles and deleteImage, the two handlers that write uploadedImages
\* and the images of App.jsx.  A file is the number it got when the user
\* chose it; Date.now() never goes back and can return the same value twice.

\* Most files in one call of handleFiles.
MaxBatch == 5
\* Most files chosen in one behaviour.
MaxFiles == 11
\* The last value of the clock.
MaxNow == 1

\* The most images handleFiles accepts.
uploadLimit == 10

\* newImages of handleFiles: id Date.now() + index, for the n files that
\* follow the last one chosen.
newImages(n, t) ==
    [k \in 1 .. n |-> [id |-> t + (k - 1), file |-> nextFile + (k - 1)]]

\* allImages.map(img => img.file)
FilesOf(imgs) == [k \in DOMAIN imgs |-> imgs[k].file]

\* handleFiles without the test of allImages.length.
handleFilesUnchecked(n, t) ==
    /\ nextFile + n - 1 <= MaxFiles
    /\ t >= now
    /\ now' = t
    /\ nextFile' = nextFile + n
    /\ uploadedImages' = uploadedImages \o newImages(n, t)
    /\ parentImages' = FilesOf(uploadedImages \o newImages(n, t))
    /\ uploadError' = ""
    /\ UNCHANGED <<fmt, normVars, genVars, previewVars, dartVars, userPrompt,
                   appVars, backendVars, publishVars, backupVars,
                   overlapVars>>

\* handleFiles(files) with n files at time t: more than 10 images in all
\* set the error and nothing else; otherwise both lists are set and the
\* error is cleared.
handleFiles(n, t) ==
    /\ nextFile + n - 1 <= MaxFiles
    /\ t >= now
    /\ now' = t
    /\ nextFile' = nextFile + n
    /\ LET allImages == uploadedImages \o newImages(n, t)
       IN  IF Len(allImages) > uploadLimit
           THEN /\ uploadError' = "You can upload a maximum of 10 images."
                /\ UNCHANGED <<uploadedImages, parentImages>>
           ELSE /\ uploadedImages' = allImages
                /\ parentImages' = FilesOf(allImages)
                /\ uploadError' = ""
    /\ UNCHANGED <<fmt, normVars, genVars, previewVars, dartVars, userPrompt,
                   appVars, backendVars, publishVars, backupVars,
                   overlapVars>>

\* deleteImage(imageId), from the delete button of a listed image.
deleteImage(imageId) ==
    /\ \E k \in DOMAIN uploadedImages : uploadedImages[k].id = imageId
    /\ LET updatedImages ==
               SelectSeq(uploadedImages, LAMBDA img : img.id # imageId)
       IN  /\ uploadedImages' = updatedImages
           /\ parentImages' = FilesOf(updatedImages)
    /\ UNCHANGED <<fmt, normVars, genVars, previewVars, dartVars, userPrompt,
                   appVars, backendVars, publishVars, backupVars, uploadError,
                   now, nextFile, overlapVars>>

InitUpload ==
    /\ fmt = "react-mui"
    /\ raw = <<>>
    /\ NormIdle /\ GenIdle /\ PreviewIdle /\ DartIdle /\ RestIdle

NextUploadStep ==
    \/ \E n \in 1 .. MaxBatch, t \in 0 .. MaxNow : handleFiles(n, t)
    \/ \E id \in 0 .. MaxNow + MaxBatch : deleteImage(id)

SpecUpload == InitUpload /\ [][NextUploadStep]_vars

---------------------------------------------------------------------------
\* LivePreview (src/src/components/LivePreview.tsx) under changing props:
\* every call of initializePreview is kept in inits, and the define request
\* of a call settles at any later time, whatever was started since.  Here
\* out is the code prop and fmt the codeFormat prop.

\* Most calls of initializePreview in one behaviour.
MaxInits == 4
\* Most pending timers of handleIframeLoad.
MaxLoadTimers == 1

\* The values of the code prop.
OverlapCodes == {<<"DEF_FUNC_GC">>, <<"DEF_CONST_GC", "NL", "EXP_GC">>}

\* The values of the codeFormat prop: one whose URL needs a request and
\* one whose URL is made at once.
OverlapFormats == {"react-mui", "react-native"}

\* The URL createCodeSandboxUrl returns for the files it posted.
createCodeSandboxUrl(posted_files) ==
    [host |-> "codesandbox.io", source |-> posted_files.appJs]

\* The URL a call of initializePreview with code c and format f sets when
\* it succeeds.
UrlOfInit(c, f) ==
    IF f = "react-mui"
    THEN createCodeSandboxUrl(sandboxFiles(prepareCodeForPreview(c, f)))
    ELSE createSnackUrl(prepareCodeForPreview(c, f))

\* initializePreview with the props c and f, up to its first await or, for
\* react-native, to the end of its finally block.
StartInitialization(c, f) ==
    /\ Len(inits) < MaxInits
    /\ error' = NoError
    /\ IF f = "react-mui"
       THEN /\ isLoading' = TRUE
            /\ previewUrl' = NoUrl
            /\ files' = sandboxFiles(prepareCodeForPreview(c, f))
            /\ inits' = Append(inits,
                   [code |-> c, format |-> f, status |-> "pending"])
       ELSE /\ isLoading' = FALSE
            /\ previewUrl' = createSnackUrl(prepareCodeForPreview(c, f))
            /\ inits' = Append(inits,
                   [code |-> c, format |-> f, status |-> "ok"])
            /\ UNCHANGED files

\* The preview is opened: LivePreview mounts and its effect runs.
MountPreview ==
    /\ ppc = "idle"
    /\ ppc' = "done"
    /\ StartInitialization(out, fmt)
    /\ UNCHANGED <<fmt, normVars, genVars, response, dartVars, userPrompt,
                   appVars, backendVars, publishVars, backupVars, uploadVars,
                   loadTimers>>

\* The code prop changes and the effect runs again.
CodeChanges(c) ==
    /\ ppc = "done"
    /\ c # out
    /\ out' = c
    /\ StartInitialization(c, fmt)
    /\ UNCHANGED <<fmt, raw, out2, npc, genVars, ppc, response, dartVars,
                   userPrompt, appVars, backendVars, publishVars, backupVars,
                   uploadVars, loadTimers>>

\* The codeFormat prop changes and the effect runs again.
FormatChanges(f) ==
    /\ ppc = "done"
    /\ f # fmt
    /\ fmt' = f
    /\ StartInitialization(out, f)
    /\ UNCHANGED <<normVars, genVars, ppc, response, dartVars, userPrompt,
                   appVars, backendVars, publishVars, backupVars, uploadVars,
                   loadTimers>>

\* The Refresh Preview button, disabled while isLoading.
RefreshClicked ==
    /\ ppc = "done"
    /\ ~isLoading
    /\ StartInitialization(out, fmt)
    /\ UNCHANGED <<fmt, normVars, genVars, ppc, response, dartVars,
                   userPrompt, appVars, backendVars, publishVars, backupVars,
                   uploadVars, loadTimers>>

\* The define request of the i-th call resolves with a sandbox id:
\* setPreviewUrl(url), then the finally block.
DefineResolves(i) ==
    /\ i \in DOMAIN inits
    /\ inits[i].status = "pending"
    /\ previewUrl' = UrlOfInit(inits[i].code, inits[i].format)
    /\ isLoading' = FALSE
    /\ response' = "ok"
    /\ inits' = [inits EXCEPT ![i].status = "ok"]
    /\ UNCHANGED <<fmt, normVars, genVars, ppc, error, files, dartVars,
                   userPrompt, appVars, backendVars, publishVars, backupVars,
                   uploadVars, loadTimers>>

\* The define request of the i-th call fails: setError(message), then the
\* finally block.
DefineFails(i, kind) ==
    /\ i \in DOMAIN inits
    /\ inits[i].status = "pending"
    /\ error' = "Failed to create CodeSandbox preview"
    /\ isLoading' = FALSE
    /\ response' = kind
    /\ inits' = [inits EXCEPT ![i].status = "failed"]
    /\ UNCHANGED <<fmt, normVars, genVars, ppc, previewUrl, files, dartVars,
                   userPrompt, appVars, backendVars, publishVars, backupVars,
                   uploadVars, loadTimers>>

\* The rendered iframe fires onLoad: handleIframeLoad sets its timer.
IframeLoads ==
    /\ ppc = "done"
    /\ IframeRendered
    /\ loadTimers < MaxLoadTimers
    /\ loadTimers' = loadTimers + 1
    /\ UNCHANGED <<fmt, normVars, genVars, previewVars, dartVars, userPrompt,
                   appVars, backendVars, publishVars, backupVars, uploadVars,
                   inits>>

\* A timer of handleIframeLoad fires: setIsLoading(false).
LoadTimerFires ==
    /\ loadTimers > 0
    /\ loadTimers' = loadTimers - 1
    /\ isLoading' = FALSE
    /\ UNCHANGED <<fmt, normVars, genVars, ppc, previewUrl, error, files,
                   response, dartVars, userPrompt, appVars, backendVars,
                   publishVars, backupVars, uploadVars, inits>>

InitOverlap ==
    /\ fmt \in OverlapFormats
    /\ raw = <<>>
    /\ out \in OverlapCodes /\ out2 = <<>> /\ npc = "once"
    /\ GenIdle /\ PreviewIdle /\ DartIdle /\ RestIdle

NextOverlap ==
    \/ MountPreview
    \/ \E c \in OverlapCodes : CodeChanges(c)
    \/ \E f \in OverlapFormats : FormatChanges(f)
    \/ RefreshClicked
    \/ \E i \in 1 .. MaxInits : DefineResolves(i)
    \/ \E i \in 1 .. MaxInits, kind \in FetchFailures : DefineFails(i, kind)
    \/ IframeLoads
    \/ LoadTimerFires

SpecOverlap == InitOverlap /\ [][NextOverlap]_vars

---------------------------------------------------------------------------
\* Properties of the image list of src/src/App.tsx.

\* C29: selectedImageId is the id of a listed image whenever the list is
\* not empty, and is the empty string (0 here) whenever the list is empty.
C29_SelectionListed ==
    IF images = <<>>
    THEN selectedImageId = 0
    ELSE Find(images, selectedImageId) # 0

\* The first of two uploaded images was removed, and the second is the
\* selected one.
C29_Witness ==
    /\ nextId = 3
    /\ Len(images) = 1
    /\ images[1].id = 2
    /\ selectedImageId = 2

\* C25: when isGeneratingAll returns to false, every image whose
\* isGenerating is set has a request pending.
C25_NoneLeftGenerating ==
    [][(isGeneratingAll /\ ~isGeneratingAll') =>
           \A k \in DOMAIN images' :
               images'[k].isGenerating =>
                   \E r \in inflight' : r.image = images'[k].id]_vars

\* C26: the step that starts generateCodeForImage or generateAllCodes and
\* the step that ends a failed request of either leave the code of every
\* image as it was: an image whose request fails has the code it had
\* before the operation, and so has an image without a description.
C26_FailureKeepsCode ==
    [][(\/ GenerateAllCodes
        \/ \E id \in ImageIds : GenerateCodeForImage(id)
        \/ \E r \in inflight : SingleCodeRejects(r) \/ AllCodeRejects(r)) =>
           /\ DOMAIN images' = DOMAIN images
           /\ \A k \in DOMAIN images : images'[k].code = images[k].code]_vars

\* C27: the image of every pending request has its isGenerating set.
C27_FlagWhilePending ==
    \A r \in inflight :
        Find(images, r.image) # 0 => images[Find(images, r.image)].isGenerating

---------------------------------------------------------------------------
\* Properties of the backend/React-Live pipeline.

\* C21: for every model output wrapped in a fence, the code stored by
\* handleCodeGenerated has no triple backtick.
C21_StoredCodeFenceFree ==
    (npc = "twice" /\ raw \in FencedOutputs) => ~HasFence(out2)

---------------------------------------------------------------------------
\* Properties of the two publish routes.

\* The greatest element of a non-empty set of numbers.
Greatest(S) == CHOOSE n \in S : \A m \in S : m <= n

\* C22: every version file is written under a number that no version file
\* has, no version file changes once written, and when a publish ends with
\* success GeneratedComponent.jsx has the content of the newest version
\* file.
C22_VersionHistoryKept ==
    [][/\ \A p \in publishes :
              WriteVersionFile(p) => p.versionNumber \notin DOMAIN versionFiles
       /\ \A n \in DOMAIN versionFiles :
              n \in DOMAIN versionFiles' /\ versionFiles'[n] = versionFiles[n]
       /\ \A p \in publishes :
              WriteComponentFile(p) =>
                  componentFile' =
                      versionFiles'[Greatest(DOMAIN versionFiles')]]_vars

\* The versions of the successful responses, in the order they were sent.
ReportedVersions ==
    LET ok == SelectSeq(reported, LAMBDA a : a.status = 200)
    IN  [i \in DOMAIN ok |-> ok[i].version]

\* C23: a publish that finds no App.js reports version 0 and writes no
\* backup; any other publish copies App.js into a folder that is one above
\* the highest and held no App.jsx, and what it then replaces in App.js is
\* what that folder holds; no backup changes afterwards; and the reported
\* versions strictly increase.
C23_BackupsFollowAppJs ==
    /\ [](\A i, j \in DOMAIN ReportedVersions :
              i < j => ReportedVersions[i] < ReportedVersions[j])
    /\ [][/\ \A r \in backupRuns :
                 CopyResolves(r) =>
                     /\ r.version = getNextVersion(
                            {n \in DOMAIN backupDirs :
                                 backupDirs[n] # NoFile}) + 1
                     /\ backupDirs[r.version] = NoFile
          /\ \A r \in backupRuns :
                 WriteAppJs(r) =>
                     IF appJs = NoFile THEN r.version = 0
                     ELSE /\ r.version \in DOMAIN backupDirs
                          /\ backupDirs[r.version] = appJs
          /\ \A n \in DOMAIN backupDirs :
                 backupDirs[n] # NoFile => backupDirs'[n] = backupDirs[n]]_vars

---------------------------------------------------------------------------
\* Properties of ImageUpload.

\* C24: uploadedImages never holds more than 10 images; a call of
\* handleFiles that would bring the total above 10 sets the error message
\* and leaves uploadedImages and the images of the parent as they are; and
\* deleteImage removes the images with the given id and no other.
C24_AtMostTenImages ==
    /\ [](Len(uploadedImages) <= 10)
    /\ [][/\ \A n \in 1 .. MaxBatch, t \in 0 .. MaxNow :
                 (handleFiles(n, t) /\ Len(uploadedImages) + n > 10) =>
                     /\ uploadError' # ""
                     /\ UNCHANGED <<uploadedImages, parentImages>>
          /\ \A id \in 0 .. MaxNow + MaxBatch :
                 deleteImage(id) =>
                     /\ Len(uploadedImages') < Len(uploadedImages)
                     /\ uploadedImages' =
                            SelectSeq(uploadedImages,
                                      LAMBDA img : img.id # id)]_vars

\* A batch was rejected while the list held 10 images.
C24_Witness ==
    /\ Len(uploadedImages) = 10
    /\ Len(parentImages) = 10
    /\ uploadError # ""
    /\ nextFile > 11

---------------------------------------------------------------------------
\* Properties of LivePreview under overlapping initializations.

\* C28: when no call of initializePreview is pending, previewUrl and error
\* are those of the call that started last: its URL and no error when it
\* succeeded, no URL and its error when it failed.
C28_LastInitializationShown ==
    (inits # <<>> /\ \A i \in DOMAIN inits : inits[i].status # "pending") =>
        LET last == inits[Len(inits)]
        IN  IF last.status = "ok"
            THEN /\ previewUrl = UrlOfInit(last.code, last.format)
                 /\ error = NoError
            ELSE /\ previewUrl = NoUrl
                 /\ error # NoError
==========================================================================
